---- MODULE Spec2Model ----
(***************************************************************************)
(* Verification model of the seismic NAV QC pipeline.                      *)
(*                                                                         *)
(* Physical values and thresholds are fixed-point integers in hundredths   *)
(* of the unit of the source (6.0 s is 600, 1.5 ms is 150, 90 is 9000).    *)
(* A null / NaN cell is the value NULL.                                    *)
(***************************************************************************)
EXTENDS Integers, Sequences, FiniteSets, TLC

VARIABLES
    pc,             \* position of the code being run
    thresholds,     \* QCValidator.thresholds (QCThresholds)
    df,             \* the table under validation / the merged table: [cols, rows]
    timing_todo,    \* validate_gun_timing: timing columns still to process
    log_data,       \* generate_line_log_report: the log dictionary being built
    sps_df,         \* _qc_worker_function: the base (SPS) table
    secondaries,    \* _qc_worker_function: name -> imported secondary table
    merge_todo,     \* _qc_worker_function: merge_dfs entries still to join
    join_log,       \* per secondary: "skipped", "joined", "failed" (history)
    markers,        \* [fgsp, lgsp] read from the line log (NULL when absent)
    missed_sp,      \* result of check_sp
    percentages,    \* result of calculate_percentages
    signals,        \* signals emitted by QCWorkerThread, in order
    is_cancelled,   \* QCWorkerThread._is_cancelled
    cancel_at,      \* pc at which cancel() was called (history), "never" if not
    cancel_at_return, \* _is_cancelled when the QC function returned (history)
    cancel_at_check, \* _is_cancelled as read by run() after the return (history)
    fn_outcome,     \* the QC function is "running", has "returned" or "raised"
    started_after_cancel, \* stages started after cancel() was called (history)
    db_written,     \* the database output file has been written
    filter_todo,    \* _filter_log_data_by_range: keys still to visit
    filtered_data,  \* _filter_log_data_by_range: the mapping being built
    io,             \* outcome of the environment: [save_ok]
    call            \* activation record of a function run on its own

vars == <<pc, thresholds, df, timing_todo, log_data, sps_df, secondaries,
          merge_todo, join_log, markers, missed_sp, percentages, signals,
          is_cancelled, cancel_at, cancel_at_return, cancel_at_check,
          fn_outcome, started_after_cancel, db_written, filter_todo,
          filtered_data, io, call>>

-----------------------------------------------------------------------------
(* Generic helpers *)

NULL == -999999

IsNull(v) == v = NULL

\* pandas Series.fillna(0)
FillNa(v) == IF IsNull(v) THEN 0 ELSE v

\* abs()
Abs(v) == IF v < 0 THEN -v ELSE v

Max(a, b) == IF a >= b THEN a ELSE b

Min(a, b) == IF a <= b THEN a ELSE b

RECURSIVE SumSeq(_)
SumSeq(s) == IF s = <<>> THEN 0 ELSE Head(s) + SumSeq(Tail(s))

RECURSIVE SelectIdx(_, _, _)
\* the indices i of s, in order, with Test(s[i])
SelectIdx(s, Test(_), i) ==
    IF i > Len(s) THEN <<>>
    ELSE IF Test(s[i]) THEN <<i>> \o SelectIdx(s, Test, i + 1)
    ELSE SelectIdx(s, Test, i + 1)

RECURSIVE SeqOfSet(_)
\* a set of integers as an ascending sequence
SeqOfSet(S) ==
    IF S = {} THEN <<>>
    ELSE LET m == CHOOSE x \in S : \A y \in S : x <= y
         IN  <<m>> \o SeqOfSet(S \ {m})

Range(s) == {s[i] : i \in DOMAIN s}

-----------------------------------------------------------------------------
(* QC thresholds: the fallback values of QCValidator._load_thresholds,     *)
(* in hundredths.                                                          *)

sti_error_default == 600
sub_array_sep_min_default == 680
sub_array_sep_max_default == 920
dual_cos_min_default == 3375
dual_cos_max_default == 4125
triple_cos_min_default == 3375
triple_cos_max_default == 4125
volume_nominal_default == 304000
gun_depth_min_default == -800
gun_depth_max_default == -600
gun_pressure_min_default == 190000
gun_pressure_max_default == 210000
timing_warning_default == 100
timing_error_default == 150
radial_limit_default == 1000
sma_limit_default == 300

\* the sentinel gun-timing codes, in hundredths
CODE_UNKNOWN == 6300
CODE_DISABLED == 6100
CODE_MISFIRE == 9000

DefaultThresholds ==
    [sti_error |-> sti_error_default,
     sub_array_sep_min |-> sub_array_sep_min_default,
     sub_array_sep_max |-> sub_array_sep_max_default,
     dual_cos_min |-> dual_cos_min_default,
     dual_cos_max |-> dual_cos_max_default,
     triple_cos_min |-> triple_cos_min_default,
     triple_cos_max |-> triple_cos_max_default,
     volume_nominal |-> volume_nominal_default,
     gun_depth_min |-> gun_depth_min_default,
     gun_depth_max |-> gun_depth_max_default,
     gun_pressure_min |-> gun_pressure_min_default,
     gun_pressure_max |-> gun_pressure_max_default,
     timing_warning |-> timing_warning_default,
     timing_error |-> timing_error_default,
     radial_limit |-> radial_limit_default,
     sma_limit |-> sma_limit_default]

-----------------------------------------------------------------------------
(* Column names of the merged table *)

STI_COL == "Shot Time (s)  sec"
SEP1 == "SOURCE SSTG1 towed by SST String 1 - 2 Crossline Separation All Shots "
SEP2 == "SOURCE SSTG2 towed by SST String 1 - 2 Crossline Separation All Shots "
SEP3 == "SOURCE SSTG3 towed by SST String 1 - 2 Crossline Separation All Shots "
COS12 == "Gunarray301-Gunarray302 Position m"
COS23 == "Gunarray302-Gunarray303 Position m"
VOLUME == "VOLUME"
DPT1 == "SSTGM1D1_DPT (P) Shot Event m"
DPT2 == "SSTGM1D2_DPT (P) Shot Event m"
POINT_CODE == "point_code"
PRS1 == "SSTGM1P1_PRS (P) Shot Event  "
PRS2 == "SSTGM1P2_PRS (P) Shot Event  "
PRS3 == "SSTGM1P3_PRS (P) Shot Event  "
PRS4 == "SSTGM1P4_PRS (P) Shot Event  "
PRS5 == "SSTGM1P5_PRS (P) Shot Event  "
PRS6 == "SSTGM1P6_PRS (P) Shot Event  "
GUN1 == "String_1-Cluster_1-Gun_1"
GUN2 == "String_1-Cluster_1-Gun_2"
RADIAL == "Radial (m)"
SMA1 == "Gunarray301 SMA m"
SMA2 == "Gunarray302 SMA m"

\* the order of the columns in df.columns (the order the rules iterate in)
ColumnOrder ==
    <<STI_COL, SEP1, SEP2, SEP3, COS12, COS23, VOLUME, DPT1, DPT2, POINT_CODE,
      PRS1, PRS2, PRS3, PRS4, PRS5, PRS6, GUN1, GUN2, RADIAL,
      SMA1, SMA2>>

\* [col for col in df.columns if Test(col)], in column order
ColumnsWhere(cols, Test(_)) ==
    LET idx == SelectIdx(ColumnOrder, LAMBDA c : c \in cols /\ Test(c), 1)
    IN  [k \in DOMAIN idx |-> ColumnOrder[idx[k]]]

FLAG_COLUMNS ==
    <<"sti_flag", "sub_array_sep_flag", "cos_sep_flag", "volume_flag",
      "gun_depth_flag", "gun_pressure_flag", "gun_timing_flag",
      "repeatability_flag", "sma_flag">>

FlagNames == Range(FLAG_COLUMNS)

-----------------------------------------------------------------------------
(* The table: [cols |-> set of physical column names,                      *)
(*             sp_dtype |-> "Int64" or "str", the dtype of shot_point,     *)
(*             rows |-> sequence of rows].                                 *)
(* A row: [shot_point, phys |-> [cols -> value], flag |-> [flag columns    *)
(* present -> value], average_gun_depth |-> [sum, n], n = 0 for NaN].             *)

\* df.loc[Mask, flag] = Value, row by row
SetFlagWhere(t, Mask(_), f, Value(_)) ==
    [t EXCEPT !.rows =
        [i \in DOMAIN t.rows |->
            IF Mask(t.rows[i])
            THEN [t.rows[i] EXCEPT !.flag[f] = Value(t.rows[i])]
            ELSE t.rows[i]]]

\* (df[col].fillna(0) < lo) | (df[col].fillna(0) > hi)
OutOfRange(r, col, lo, hi) ==
    FillNa(r.phys[col]) < lo \/ FillNa(r.phys[col]) > hi

\* for col in flag_columns: df[col] = 0
InitFlags(t) ==
    [t EXCEPT !.rows =
        [i \in DOMAIN t.rows |->
            [t.rows[i] EXCEPT !.flag = [f \in FlagNames |-> 0]]]]

\* mutant: the rule starts from freshly initialised flag columns
validate_sti_ResetsFlags(t, th) ==
    IF STI_COL \notin t.cols THEN InitFlags(t)
    ELSE SetFlagWhere(InitFlags(t),
                      LAMBDA r : FillNa(r.phys[STI_COL]) < th.sti_error,
                      "sti_flag", LAMBDA r : 2)

validate_sti(t, th) ==
    IF STI_COL \notin t.cols THEN t
    ELSE SetFlagWhere(t, LAMBDA r : FillNa(r.phys[STI_COL]) < th.sti_error,
                      "sti_flag", LAMBDA r : 2)

validate_sub_array_separation(t, th) ==
    LET existing == {SEP1, SEP2, SEP3} \cap t.cols
    IN  IF existing = {} THEN t
        ELSE SetFlagWhere(t,
                LAMBDA r : \E c \in existing :
                    OutOfRange(r, c, th.sub_array_sep_min, th.sub_array_sep_max),
                "sub_array_sep_flag", LAMBDA r : 2)

validate_cos_separation(t, th) ==
    IF COS12 \in t.cols
    THEN SetFlagWhere(t,
            LAMBDA r : OutOfRange(r, COS12, th.dual_cos_min, th.dual_cos_max),
            "cos_sep_flag", LAMBDA r : 2)
    ELSE LET triple_cols == {COS12, COS23} \cap t.cols
         IN  IF triple_cols = {} THEN t
             ELSE SetFlagWhere(t,
                     LAMBDA r : \E c \in triple_cols :
                         OutOfRange(r, c, th.triple_cos_min, th.triple_cos_max),
                     "cos_sep_flag", LAMBDA r : 2)

\* col.startswith('String') and 'Cluster' in col and 'Gun' in col and
\* not col.endswith('-Depth') and not col.endswith('-Pressure')
LooseTimingName(c) == c \in {GUN1, GUN2}

\* re.match(r'^String_\d+-Cluster_\d+-Gun_\d+$', col)
StrictTimingName(c) == c \in {GUN1, GUN2}

validate_volume(t, th) ==
    IF VOLUME \notin t.cols THEN t
    ELSE LET timing_cols == {c \in t.cols : LooseTimingName(c)}
             misfire(r) == \E c \in timing_cols :
                               Abs(FillNa(r.phys[c])) = CODE_MISFIRE
         IN  SetFlagWhere(t,
                LAMBDA r : FillNa(r.phys[VOLUME]) # th.volume_nominal
                           /\ ~misfire(r),
                "volume_flag", LAMBDA r : 2)

\* df[gun_depth_cols].mean(axis=1): the mean of the non-null cells, kept
\* exact as [sum, n]; n = 0 is NaN (every cell null)
RowMean(r, cs) ==
    LET vals == ColumnsWhere(cs, LAMBDA c : ~IsNull(r.phys[c]))
    IN  [sum |-> SumSeq([k \in DOMAIN vals |-> r.phys[vals[k]]]),
         n |-> Len(vals)]

\* (average.fillna(0) < lo) | (average.fillna(0) > hi), on the exact mean
MeanOutOfRange(avg, lo, hi) ==
    IF avg.n = 0 THEN 0 < lo \/ 0 > hi
    ELSE avg.sum < lo * avg.n \/ avg.sum > hi * avg.n

validate_gun_depth(t, th) ==
    LET gun_depth_cols == {c \in t.cols : c \in {DPT1, DPT2}}
    IN  IF gun_depth_cols = {} THEN t
        ELSE LET withAvg ==
                    [t EXCEPT !.rows =
                        [i \in DOMAIN t.rows |->
                            [t.rows[i] EXCEPT !.average_gun_depth =
                                RowMean(t.rows[i], gun_depth_cols)]]]
             IN  SetFlagWhere(withAvg,
                    LAMBDA r : MeanOutOfRange(r.average_gun_depth,
                                              th.gun_depth_min, th.gun_depth_max),
                    "gun_depth_flag", LAMBDA r : 2)

point_code_pressure_mapping ==
    [A1 |-> {PRS1, PRS2}, A2 |-> {PRS3, PRS4}, A3 |-> {PRS5, PRS6}]

validate_gun_pressure(t, th) ==
    IF POINT_CODE \in t.cols
    THEN SetFlagWhere(t,
            LAMBDA r : \E pcode \in DOMAIN point_code_pressure_mapping :
                /\ r.phys[POINT_CODE] = pcode
                /\ \E c \in point_code_pressure_mapping[pcode] \cap t.cols :
                       OutOfRange(r, c, th.gun_pressure_min, th.gun_pressure_max),
            "gun_pressure_flag", LAMBDA r : 2)
    ELSE LET pressure_cols ==
                 {c \in t.cols : c \in {PRS1, PRS2, PRS3, PRS4, PRS5, PRS6}}
         IN  SetFlagWhere(t,
                LAMBDA r : \E c \in pressure_cols :
                    OutOfRange(r, c, th.gun_pressure_min, th.gun_pressure_max),
                "gun_pressure_flag", LAMBDA r : 2)

\* mutant: the misfire code 90 is not excluded from the timing mask
TimingMask_NoMisfireExclusion(r, col, limit) ==
    LET v == r.phys[col]
    IN  /\ v # CODE_UNKNOWN /\ v # CODE_DISABLED
        /\ ~IsNull(v)
        /\ (v < -limit \/ v > limit)

\* the mask of one pass of validate_gun_timing over column col: not a
\* sentinel code and beyond +-limit (a comparison with NaN is False)
TimingMask(r, col, limit) ==
    LET v == r.phys[col]
    IN  /\ v # CODE_UNKNOWN /\ v # CODE_DISABLED /\ v # CODE_MISFIRE
        /\ ~IsNull(v)
        /\ (v < -limit \/ v > limit)

\* mutant: the warning pass assigns 1 instead of taking the maximum
TimingWarningPass_Assign(t, col, th) ==
    SetFlagWhere(t, LAMBDA r : TimingMask(r, col, th.timing_warning),
                 "gun_timing_flag", LAMBDA r : 1)

\* mutant: the warning pass counts up instead of taking the maximum
TimingWarningPass_Increment(t, col, th) ==
    SetFlagWhere(t, LAMBDA r : TimingMask(r, col, th.timing_warning),
                 "gun_timing_flag", LAMBDA r : r.flag["gun_timing_flag"] + 1)

\* df.loc[mask(timing_warning), 'gun_timing_flag'] = np.maximum(flag, 1)
TimingWarningPass(t, col, th) ==
    SetFlagWhere(t, LAMBDA r : TimingMask(r, col, th.timing_warning),
                 "gun_timing_flag", LAMBDA r : Max(r.flag["gun_timing_flag"], 1))

\* df.loc[mask(timing_error), 'gun_timing_flag'] = 2
TimingErrorPass(t, col, th) ==
    SetFlagWhere(t, LAMBDA r : TimingMask(r, col, th.timing_error),
                 "gun_timing_flag", LAMBDA r : 2)

\* the timing columns validate_gun_timing finds, in column order
TimingCols(t) == ColumnsWhere(t.cols, StrictTimingName)

RECURSIVE TimingLoop(_, _, _)
\* for col in timing_cols: warning pass, then error pass
TimingLoop(t, cs, th) ==
    IF cs = <<>> THEN t
    ELSE TimingLoop(TimingErrorPass(TimingWarningPass(t, Head(cs), th),
                                    Head(cs), th),
                    Tail(cs), th)

validate_gun_timing(t, th) == TimingLoop(t, TimingCols(t), th)

validate_radial(t, th) ==
    IF RADIAL \notin t.cols THEN t
    ELSE SetFlagWhere(t,
            LAMBDA r : OutOfRange(r, RADIAL, -th.radial_limit, th.radial_limit),
            "repeatability_flag", LAMBDA r : 1)

validate_sma(t, th) ==
    LET sma_cols == {c \in t.cols : c \in {SMA1, SMA2}}
    IN  IF sma_cols = {} THEN t
        ELSE SetFlagWhere(t,
                LAMBDA r : \E c \in sma_cols : FillNa(r.phys[c]) > th.sma_limit,
                "sma_flag", LAMBDA r : 2)

\* validate_data: initialise the nine flags, run the rules in order
validate_data(t, th) ==
    validate_sma(
     validate_radial(
      validate_gun_timing(
       validate_gun_pressure(
        validate_gun_depth(
         validate_volume(
          validate_cos_separation(
           validate_sub_array_separation(
            validate_sti(InitFlags(t), th), th), th), th), th), th), th), th), th)

-----------------------------------------------------------------------------
(* generate_line_log_report: the per-flag, timing, misfire and disabled    *)
(* entries of log_data                                                     *)

\* f"{parts[0].replace('_', ' ')} {parts[1].replace('_', ' ')} {parts[2]...}"
GunInfo(c) ==
    CASE c = GUN1 -> "String 1 Cluster 1 Gun 1"
      [] c = GUN2 -> "String 1 Cluster 1 Gun 2"

\* abs(row[col]) if pd.notna(row[col]) else 0
TimingValue(r, c) == IF IsNull(r.phys[c]) THEN 0 ELSE Abs(r.phys[c])

\* the thresholds written into generate_line_log_report
LOG_WARNING_MIN == 100
LOG_WARNING_MAX == 150
LOG_ERROR_MIN == 150

\* matching_guns of a row whose gun_timing_flag is level (1 or 2)
MatchingGuns(t, r, level) ==
    LET hit(c) ==
            /\ LooseTimingName(c)
            /\ TimingValue(r, c) \notin {CODE_UNKNOWN, CODE_DISABLED, CODE_MISFIRE}
            /\ IF level = 1
               THEN LOG_WARNING_MIN < TimingValue(r, c)
                    /\ TimingValue(r, c) <= LOG_WARNING_MAX
               ELSE LOG_ERROR_MIN < TimingValue(r, c)
        cs == ColumnsWhere(t.cols, hit)
    IN  [k \in DOMAIN cs |-> GunInfo(cs[k])]

\* the guns of a row whose timing value is the sentinel code
GunsWithCode(t, r, code) ==
    LET cs == ColumnsWhere(t.cols,
                  LAMBDA c : LooseTimingName(c) /\ TimingValue(r, c) = code)
    IN  [k \in DOMAIN cs |-> GunInfo(cs[k])]

RECURSIVE TimingEntries(_, _, _)
\* the (shot_point, matching_guns) tuples of the rows at level, in row order
TimingEntries(t, i, level) ==
    IF i > Len(t.rows) THEN <<>>
    ELSE LET r == t.rows[i]
             guns == MatchingGuns(t, r, level)
         IN  (IF r.flag["gun_timing_flag"] = level /\ guns # <<>>
              THEN <<(<<r.shot_point, guns>>)>> ELSE <<>>)
             \o TimingEntries(t, i + 1, level)

RECURSIVE CodeEntries(_, _, _, _)
\* the (shot_point, guns) tuples of every row with a gun at the code;
\* an entry equal to one already in the list is not appended again
CodeEntries(t, i, code, acc) ==
    IF i > Len(t.rows) THEN acc
    ELSE LET r == t.rows[i]
             guns == GunsWithCode(t, r, code)
             entry == <<r.shot_point, guns>>
         IN  CodeEntries(t, i + 1, code,
                 IF guns # <<>> /\ entry \notin Range(acc)
                 THEN Append(acc, entry) ELSE acc)

\* the shot points of the rows with df[flag] > 0, in row order
FlaggedShotPoints(t, f) ==
    LET idx == SelectIdx(t.rows, LAMBDA r : r.flag[f] > 0, 1)
    IN  [k \in DOMAIN idx |-> t.rows[idx[k]].shot_point]

LOG_FLAG_COLUMNS ==
    {"sub_array_sep_flag", "cos_sep_flag", "volume_flag", "gun_depth_flag",
     "gun_pressure_flag", "gun_timing_flag", "repeatability_flag", "sma_flag"}

LogKey(f) ==
    CASE f = "sub_array_sep_flag" -> "log_sub_array_sep_flag"
      [] f = "cos_sep_flag" -> "log_cos_sep_flag"
      [] f = "volume_flag" -> "log_volume_flag"
      [] f = "gun_depth_flag" -> "log_gun_depth_flag"
      [] f = "gun_pressure_flag" -> "log_gun_pressure_flag"
      [] f = "gun_timing_flag" -> "log_gun_timing_flag"
      [] f = "repeatability_flag" -> "log_repeatability_flag"
      [] f = "sma_flag" -> "log_sma_flag"

\* log_data as a function from the keys present to their values
generate_line_log_report(t) ==
    LET hasLevel(l) == \E i \in DOMAIN t.rows :
                           t.rows[i].flag["gun_timing_flag"] = l
        keys == {LogKey(f) : f \in LOG_FLAG_COLUMNS}
                \cup (IF hasLevel(1) THEN {"log_timing_warning"} ELSE {})
                \cup (IF hasLevel(2) THEN {"log_timing_error"} ELSE {})
                \cup {"log_misfire_flag", "log_gun_disabled_flag"}
        value(k) ==
            CASE k = "log_timing_warning" -> TimingEntries(t, 1, 1)
              [] k = "log_timing_error" -> TimingEntries(t, 1, 2)
              [] k = "log_misfire_flag" -> CodeEntries(t, 1, CODE_MISFIRE, <<>>)
              [] k = "log_gun_disabled_flag" ->
                     CodeEntries(t, 1, CODE_DISABLED, <<>>)
              [] k = "log_gun_timing_flag" -> <<>>
              [] OTHER ->
                     FlaggedShotPoints(t,
                         CHOOSE f \in LOG_FLAG_COLUMNS : LogKey(f) = k)
    IN  [k \in keys |-> value(k)]

-----------------------------------------------------------------------------
(* Shot-point keys: Int64 <-> zero-padded string (a sequence of digits)    *)

RECURSIVE Digits(_)
\* str(n) for n >= 0, as the sequence of its decimal digits
Digits(n) == IF n < 10 THEN <<n>> ELSE Append(Digits(n \div 10), n % 10)

RECURSIVE ZFill(_, _)
\* str.zfill(width)
ZFill(s, width) == IF Len(s) >= width THEN s ELSE ZFill(<<0>> \o s, width)

RECURSIVE ParseDigits(_)
\* pd.to_numeric of a digit string
ParseDigits(s) ==
    IF s = <<>> THEN 0
    ELSE 10 * ParseDigits(SubSeq(s, 1, Len(s) - 1)) + s[Len(s)]

\* the width of the canonical key: .str.zfill(4)
KEY_WIDTH == 4

\* Series.astype(str).str.zfill(4) of an Int64 value
KeyOfInt(n) == ZFill(Digits(n), KEY_WIDTH)

\* pd.to_numeric(shot_point, errors='coerce').astype('Int64') of the merged
\* table's cell, whichever of the two dtypes the column has
ToInt64(dtype, v) == IF dtype = "str" THEN ParseDigits(v) ELSE v

\* merged_df['shot_point'] = ....astype(str).str.zfill(4)
ShotPointsToStr(t) ==
    [t EXCEPT !.sp_dtype = "str",
              !.rows = [i \in DOMAIN t.rows |->
                  [t.rows[i] EXCEPT !.shot_point =
                      KeyOfInt(ToInt64(t.sp_dtype, t.rows[i].shot_point))]]]

\* merged_df['shot_point'] = pd.to_numeric(...).astype('Int64')
ShotPointsToInt64(t) ==
    [t EXCEPT !.sp_dtype = "Int64",
              !.rows = [i \in DOMAIN t.rows |->
                  [t.rows[i] EXCEPT !.shot_point =
                      ToInt64(t.sp_dtype, t.rows[i].shot_point)]]]

-----------------------------------------------------------------------------
(* The merge loop of _qc_worker_function                                   *)
(* A secondary table: [has_key, merge_raises, cols, rows]; a row is        *)
(* [shot_point |-> raw value in tenths (10015 is 1001.5), phys].           *)

\* the secondary's shot_point cannot be cast to Int64 (a non-integer float)
CastRaises(sec) == \E i \in DOMAIN sec.rows : sec.rows[i].shot_point % 10 # 0

\* the canonical key of a secondary row
SecKey(row) == KeyOfInt(row.shot_point \div 10)

RECURSIVE LeftJoinRows(_, _, _, _)
\* pd.merge(left, right, on='shot_point', how='left'): for each left row in
\* order, one output row per right row with the same key, or one row with
\* the right's columns null when there is none
LeftJoinRows(leftRows, sec, i, acc) ==
    IF i > Len(leftRows) THEN acc
    ELSE LET l == leftRows[i]
             hits == SelectIdx(sec.rows, LAMBDA r : SecKey(r) = l.shot_point, 1)
             nulls == [c \in sec.cols |-> NULL]
             out == IF hits = <<>>
                    THEN <<[l EXCEPT !.phys = l.phys @@ nulls]>>
                    ELSE [k \in DOMAIN hits |->
                            [l EXCEPT !.phys = l.phys @@ sec.rows[hits[k]].phys]]
         IN  LeftJoinRows(leftRows, sec, i + 1, acc \o out)

LeftJoin(t, sec) ==
    [t EXCEPT !.cols = t.cols \cup sec.cols,
              !.rows = LeftJoinRows(t.rows, sec, 1, <<>>)]

\* one iteration of "for name, df in merge_dfs": the merged table after it
\* and what happened ("skipped", "joined", "failed")
MergeOne(t, sec) ==
    IF sec.rows = <<>> \/ ~sec.has_key
    THEN [df |-> t, outcome |-> "skipped"]
    ELSE IF CastRaises(sec)
    THEN [df |-> t, outcome |-> "failed"]
    ELSE IF sec.merge_raises
    THEN [df |-> ShotPointsToStr(t), outcome |-> "failed"]
    ELSE [df |-> ShotPointsToInt64(LeftJoin(ShotPointsToStr(t), sec)),
          outcome |-> "joined"]

-----------------------------------------------------------------------------
(* MainWindow.check_sp *)

RECURSIVE StepRange(_, _, _)
\* list(range(from, to, step)) for step > 0
StepRange(from, to, step) ==
    IF from >= to THEN <<>> ELSE <<from>> \o StepRange(from + step, to, step)

ShotPointList(t) == [i \in DOMAIN t.rows |-> t.rows[i].shot_point]

\* next_ - current raises TypeError on two strings
CheckSpRaises(t) == t.sp_dtype = "str" /\ Len(t.rows) >= 2

\* mutant: every integer between the pair is reported (step 1)
RECURSIVE MissedBetween_UnitStep(_, _)
MissedBetween_UnitStep(sorted, i) ==
    IF i >= Len(sorted) THEN <<>>
    ELSE (IF Abs(sorted[i + 1] - sorted[i]) > 2
          THEN StepRange(sorted[i] + 1, sorted[i + 1], 1) ELSE <<>>)
         \o MissedBetween_UnitStep(sorted, i + 1)

\* mutant: a pair is a miss only when its gap exceeds twice the step
RECURSIVE MissedBetween_TwiceStep(_, _)
MissedBetween_TwiceStep(sorted, i) ==
    IF i >= Len(sorted) THEN <<>>
    ELSE (IF Abs(sorted[i + 1] - sorted[i]) > 4
          THEN StepRange(sorted[i] + 2, sorted[i + 1], 2) ELSE <<>>)
         \o MissedBetween_TwiceStep(sorted, i + 1)

RECURSIVE MissedBetween(_, _)
MissedBetween(sorted, i) ==
    IF i >= Len(sorted) THEN <<>>
    ELSE (IF Abs(sorted[i + 1] - sorted[i]) > 2
          THEN StepRange(sorted[i] + 2, sorted[i + 1], 2) ELSE <<>>)
         \o MissedBetween(sorted, i + 1)

check_sp(t) ==
    MissedBetween(SortSeq(ShotPointList(t), LAMBDA a, b : a < b), 1)

-----------------------------------------------------------------------------
(* QCReportGenerator.calculate_percentages                                 *)
(* A percentage is kept exact as [num, den]: num / den, nan or inf when    *)
(* den = 0.  The table has been through validate_data (nine flag columns). *)

Pct(count, total) == [num |-> 100 * count, den |-> total]

CountRows(rows, Test(_)) == Len(SelectIdx(rows, Test, 1))

\* production_df: the rows within [min(fgsp, lgsp), max(fgsp, lgsp)] when
\* both markers are given, else every row
ProductionRows(t, fgsp, lgsp) ==
    IF fgsp # NULL /\ lgsp # NULL
    THEN LET min_sp == Min(fgsp, lgsp)
             max_sp == Max(fgsp, lgsp)
             keep == SelectIdx(t.rows,
                         LAMBDA r : r.shot_point >= min_sp
                                    /\ r.shot_point <= max_sp, 1)
         IN  [k \in DOMAIN keep |-> t.rows[keep[k]]]
    ELSE t.rows

\* the rows the overall statistics are counted on: df, not production_df
OverallRows(t, fgsp, lgsp) == t.rows

\* comparing a str shot_point column with the integer markers raises
PercentagesRaises(t, fgsp, lgsp) ==
    fgsp # NULL /\ lgsp # NULL /\ t.sp_dtype = "str" /\ t.rows # <<>>

\* sum of the values of column f over rows
FlagSum(rows, f) == SumSeq([i \in DOMAIN rows |-> rows[i].flag[f]])

\* number of cells of the nine flag columns, over rows, equal to level
FlagCells(rows, level) ==
    SumSeq([k \in DOMAIN FLAG_COLUMNS |->
               CountRows(rows, LAMBDA r : r.flag[FLAG_COLUMNS[k]] = level)])

\* mutant: the production filter is applied to the caller's table in place
TableAfterPercentages_InPlace(t, fgsp, lgsp) ==
    [t EXCEPT !.rows = ProductionRows(t, fgsp, lgsp)]

\* the caller's table after the call: production_df is a new frame taken by
\* boolean indexing and nothing is assigned to df
TableAfterPercentages(t, fgsp, lgsp) == t

calculate_percentages(t, total_sp_arg, fgsp, lgsp) ==
    LET production_df == ProductionRows(t, fgsp, lgsp)
        total_sp == IF fgsp # NULL /\ lgsp # NULL THEN Len(production_df)
                    ELSE IF total_sp_arg = NULL THEN Len(production_df)
                    ELSE total_sp_arg
        perFlag(f) ==
            LET flagged_records ==
                    CountRows(production_df, LAMBDA r : FillNa(r.flag[f]) > 0)
                error_records == CountRows(production_df, LAMBDA r : r.flag[f] = 2)
                warning_records == CountRows(production_df, LAMBDA r : r.flag[f] = 1)
            IN  [total |-> Pct(flagged_records, total_sp),
                 errors |-> Pct(error_records, total_sp),
                 warnings |-> Pct(warning_records, total_sp),
                 total_count |-> flagged_records,
                 error_count |-> error_records,
                 warning_count |-> warning_records]
        all == OverallRows(t, fgsp, lgsp)
        total_flags == SumSeq([k \in DOMAIN FLAG_COLUMNS |->
                                  FlagSum(all, FLAG_COLUMNS[k])])
        total_errors == FlagCells(all, 2)
        total_warnings == FlagCells(all, 1)
        cells == total_sp * Len(FLAG_COLUMNS)
        overall == [total |-> Pct(total_flags, cells),
                    errors |-> Pct(total_errors, cells),
                    warnings |-> Pct(total_warnings, cells),
                    total_count |-> total_flags,
                    error_count |-> total_errors,
                    warning_count |-> total_warnings]
    IN  [k \in FlagNames \cup {"percent_radial", "percent_gd_errors", "overall"} |->
            CASE k = "percent_radial" -> perFlag("repeatability_flag").total
              [] k = "percent_gd_errors" -> perFlag("gun_depth_flag").total
              [] k = "overall" -> overall
              [] OTHER -> perFlag(k)]

-----------------------------------------------------------------------------
(* Text: a Python str as a sequence of one-character strings               *)

DigitChars == <<"0", "1", "2", "3", "4", "5", "6", "7", "8", "9">>

IsDigit(ch) == ch \in Range(DigitChars)

DigitVal(ch) == (CHOOSE k \in DOMAIN DigitChars : DigitChars[k] = ch) - 1

\* str(n) for n >= 0
StrOfInt(n) == [i \in DOMAIN Digits(n) |-> DigitChars[Digits(n)[i] + 1]]

RECURSIVE StripLeft(_)
StripLeft(s) == IF s # <<>> /\ Head(s) = " " THEN StripLeft(Tail(s)) ELSE s

RECURSIVE StripRight(_)
StripRight(s) ==
    IF s # <<>> /\ s[Len(s)] = " " THEN StripRight(SubSeq(s, 1, Len(s) - 1))
    ELSE s

\* str.strip()
StripText(s) == StripRight(StripLeft(s))

RECURSIVE SplitFrom(_, _, _, _)
\* the pieces of s from position i on, cur being the piece under way
SplitFrom(s, sep, i, cur) ==
    IF i > Len(s) THEN <<cur>>
    ELSE IF s[i] = sep THEN <<cur>> \o SplitFrom(s, sep, i + 1, <<>>)
    ELSE SplitFrom(s, sep, i + 1, Append(cur, s[i]))

\* str.split(sep) for a one-character separator
SplitOn(s, sep) == SplitFrom(s, sep, 1, <<>>)

\* str.split(): the whitespace-separated words
Words(s) ==
    LET pieces == SplitOn(s, " ")
        keep == SelectIdx(pieces, LAMBDA w : w # <<>>, 1)
    IN  [k \in DOMAIN keep |-> pieces[keep[k]]]

RECURSIVE DigitsValue(_)
DigitsValue(s) ==
    IF s = <<>> THEN 0
    ELSE 10 * DigitsValue(SubSeq(s, 1, Len(s) - 1)) + DigitVal(s[Len(s)])

\* int(text): surrounding blanks and one leading "+" are accepted; NULL
\* stands for the ValueError
IntOfText(s) ==
    LET body == StripText(s)
        digits == IF body # <<>> /\ Head(body) = "+" THEN Tail(body) ELSE body
    IN  IF digits # <<>> /\ \A i \in DOMAIN digits : IsDigit(digits[i])
        THEN DigitsValue(digits) ELSE NULL

\* the first position at which sub occurs in s, 0 if it does not
FindFirst(s, sub) ==
    LET hits == {i \in 1..(Len(s) - Len(sub) + 1) :
                    SubSeq(s, i, i + Len(sub) - 1) = sub}
    IN  IF hits = {} THEN 0 ELSE CHOOSE i \in hits : \A j \in hits : i <= j

\* item.split(sub)[0] if sub in item else ""
PrefixBefore(item, sub) ==
    IF FindFirst(item, sub) = 0 THEN <<>>
    ELSE SubSeq(item, 1, FindFirst(item, sub) - 1)

-----------------------------------------------------------------------------
(* LineLogManager._filter_log_data_by_range                                *)
(* A log value: [kind |-> "str", text], [kind |-> "tuples", items |-> seq  *)
(* of [sp, guns]], [kind |-> "ints", items] or [kind |-> "strs", items].   *)

RANGE_KEYS ==
    {"log_consec_7_source_errors", "log_window_12_of_24_source_errors",
     "log_window_16_of_40_source_errors", "log_gun_depth_sensor_violation"}

InProduction(sp, min_sp, max_sp) == min_sp <= sp /\ sp <= max_sp

\* mutant: the range is re-emitted as parsed
TrimRange_NoClip(range_start, range_end, min_sp, max_sp) ==
    [start |-> range_start, end |-> range_end]

\* trimmed_start, trimmed_end
TrimRange(range_start, range_end, min_sp, max_sp) ==
    [start |-> Max(range_start, min_sp), end |-> Min(range_end, max_sp)]

\* one item of a range-string list: the items it contributes to the output
FilterRangeItem(item, min_sp, max_sp) ==
    IF "-" \in Range(item)
    THEN LET parts == SplitOn(item, "-")
         IN  IF Len(parts) # 2 THEN <<item>>
             ELSE LET before == Words(parts[1])
                      after == Words(parts[2])
                  IN  IF before = <<>> \/ after = <<>> THEN <<item>>
                      ELSE LET range_start == IntOfText(before[Len(before)])
                               range_end == IntOfText(after[1])
                           IN  IF range_start = NULL \/ range_end = NULL
                               THEN <<item>>
                               ELSE IF range_end >= min_sp /\ range_start <= max_sp
                               THEN LET t == TrimRange(range_start, range_end,
                                                       min_sp, max_sp)
                                        prefix == PrefixBefore(item,
                                                      StrOfInt(range_start))
                                    IN  <<prefix \o StrOfInt(t.start)
                                          \o <<"-">> \o StrOfInt(t.end)>>
                               ELSE <<>>
    ELSE IF IntOfText(item) = NULL THEN <<item>>
    ELSE IF InProduction(IntOfText(item), min_sp, max_sp) THEN <<item>>
    ELSE <<>>

RECURSIVE FilterRangeItems(_, _, _)
FilterRangeItems(items, min_sp, max_sp) ==
    IF items = <<>> THEN <<>>
    ELSE FilterRangeItem(Head(items), min_sp, max_sp)
         \o FilterRangeItems(Tail(items), min_sp, max_sp)

\* [x for x in items if min_sp <= Sp(x) <= max_sp]
FilterItems(items, Sp(_), min_sp, max_sp) ==
    LET keep == SelectIdx(items, LAMBDA x : InProduction(Sp(x), min_sp, max_sp), 1)
    IN  [k \in DOMAIN keep |-> items[keep[k]]]

\* the filtered value of one key; falsy values (empty) are not stored
FilterValue(key, value, min_sp, max_sp) ==
    CASE value.kind = "str" -> value
      [] value.kind = "tuples" ->
            [value EXCEPT !.items = FilterItems(value.items, LAMBDA x : x.sp,
                                                min_sp, max_sp)]
      [] value.kind = "strs" /\ key \in RANGE_KEYS ->
            [value EXCEPT !.items = FilterRangeItems(value.items, min_sp, max_sp)]
      [] OTHER ->
            [value EXCEPT !.items = FilterItems(value.items, LAMBDA x : x,
                                                min_sp, max_sp)]

\* mutant: only an empty text counts as empty
Falsy_TextOnly(value) == value.kind = "str" /\ value.text = <<>>

\* "if not value"
Falsy(value) ==
    IF value.kind = "str" THEN value.text = <<>> ELSE value.items = <<>>

-----------------------------------------------------------------------------
(* Input tables of the validator *)

MaxRows == 2

\* the values a physical column takes in the model (hundredths)
ColDomain(c) ==
    CASE c = STI_COL -> {NULL, 500, 700}
      [] c = SEP1 -> {600, 800}
      [] c = SEP2 -> {800, 1000}
      [] c = SEP3 -> {800}
      [] c = COS12 -> {3000, 4000}
      [] c = COS23 -> {4000, 4500}
      [] c = VOLUME -> {304000, 300000}
      [] c = DPT1 -> {NULL, -700, -900}
      [] c = DPT2 -> {-700, -500}
      [] c = POINT_CODE -> {"A1", "A2"}
      [] c \in {PRS1, PRS2} -> {200000, 180000}
      [] c \in {PRS3, PRS4, PRS5, PRS6} -> {200000, 220000}
      [] c = GUN1 -> {NULL, 50, 200, -9000}
      [] c = GUN2 -> {120, 6100, 6300, 9000}
      [] c = RADIAL -> {500, 1500, -1500}
      [] c = SMA1 -> {200, 400}
      [] c = SMA2 -> {200, 400}

\* the sets of physical columns a merged table has in the model
ColSets ==
    {{}, {STI_COL}, {SEP1, SEP2}, {COS12}, {COS23}, {COS12, COS23}, {VOLUME},
     {VOLUME, GUN1}, {DPT1, DPT2}, {POINT_CODE, PRS1, PRS3}, {PRS1, PRS3},
     {GUN1}, {GUN1, GUN2}, {RADIAL}, {SMA1, SMA2}, {STI_COL, RADIAL}}

RECURSIVE PhysRows(_)
\* every assignment of a value to each column of cs
PhysRows(cs) ==
    IF cs = {} THEN {[c \in {} |-> 0]}
    ELSE LET c == CHOOSE x \in cs : TRUE
         IN  {(c :> v) @@ f : v \in ColDomain(c), f \in PhysRows(cs \ {c})}

\* shot points of n rows: ascending by 2, or n times the same shot point
ShotPointColumns(n) == {[i \in 1..n |-> 999 + 2 * i], [i \in 1..n |-> 1001]}

\* a table as imported and merged, before validate_data
MkTable(cs, sp, ph) ==
    [cols |-> cs,
     sp_dtype |-> "Int64",
     rows |-> [i \in DOMAIN sp |->
                 [shot_point |-> sp[i], phys |-> ph[i],
                  flag |-> [f \in {} |-> 0],
                  average_gun_depth |-> [sum |-> 0, n |-> 0]]]]

\* timing_warning, timing_error as configured (hundredths of a ms)
TimingConfigs == {<<timing_warning_default, timing_error_default>>, <<150, 200>>}

\* no function is being run on its own
NoCall == <<>>

NoTable == [cols |-> {}, sp_dtype |-> "Int64", rows |-> <<>>]
NoLog == [k \in {} |-> <<>>]
NoMarkers == [fgsp |-> NULL, lgsp |-> NULL]

\* the variables of the worker thread and the pipeline, at rest
PipelineAtRest ==
    /\ sps_df = <<>>
    /\ secondaries = <<>>
    /\ merge_todo = <<>>
    /\ join_log = <<>>
    /\ markers = NoMarkers
    /\ missed_sp = <<>>
    /\ percentages = <<>>
    /\ signals = <<>>
    /\ is_cancelled = FALSE
    /\ cancel_at = "never"
    /\ cancel_at_return = FALSE
    /\ cancel_at_check = FALSE
    /\ fn_outcome = "running"
    /\ started_after_cancel = {}
    /\ db_written = FALSE
    /\ filter_todo = <<>>
    /\ filtered_data = <<>>
    /\ io = [save_ok |-> FALSE]

\* every variable but pc and call: what a function run on its own leaves alone
callFrame ==
    <<thresholds, df, timing_todo, log_data, sps_df, secondaries, merge_todo,
      join_log, markers, missed_sp, percentages, signals, is_cancelled,
      cancel_at, cancel_at_return, cancel_at_check, fn_outcome,
      started_after_cancel, db_written, filter_todo, filtered_data, io>>

\* a function run on its own: no table, no run of the pipeline
FunctionAtRest ==
    /\ thresholds = DefaultThresholds
    /\ df = NoTable
    /\ timing_todo = <<>>
    /\ log_data = NoLog
    /\ PipelineAtRest

pipelineVars ==
    <<sps_df, secondaries, merge_todo, join_log, markers, missed_sp,
      percentages, signals, is_cancelled, cancel_at, cancel_at_return,
      cancel_at_check, fn_outcome, started_after_cancel, db_written,
      filter_todo, filtered_data, io, call>>

-----------------------------------------------------------------------------
(* SpecValidate: validate_data rule by rule, then generate_line_log_report *)

InitValidate ==
    /\ pc = "validate_data"
    /\ \E cs \in ColSets, n \in 1..MaxRows :
           \E sp \in ShotPointColumns(n), ph \in [1..n -> PhysRows(cs)] :
               df = MkTable(cs, sp, ph)
    /\ \E cfg \in TimingConfigs :
           thresholds = [DefaultThresholds EXCEPT !.timing_warning = cfg[1],
                                                  !.timing_error = cfg[2]]
    /\ timing_todo = <<>>
    /\ log_data = NoLog
    /\ PipelineAtRest
    /\ call = NoCall

\* one rule of validate_data: at position here, apply Rule and go to next
RuleStep(here, Rule(_, _), next) ==
    /\ pc = here
    /\ df' = Rule(df, thresholds)
    /\ pc' = next
    /\ UNCHANGED <<thresholds, timing_todo, log_data, pipelineVars>>

VInitFlags ==
    /\ pc = "validate_data"
    /\ df' = InitFlags(df)
    /\ pc' = "validate_sti"
    /\ UNCHANGED <<thresholds, timing_todo, log_data, pipelineVars>>

VSti == RuleStep("validate_sti", validate_sti, "validate_sub_array_separation")

VSubArraySeparation ==
    RuleStep("validate_sub_array_separation", validate_sub_array_separation,
             "validate_cos_separation")

VCosSeparation ==
    RuleStep("validate_cos_separation", validate_cos_separation,
             "validate_volume")

VVolume == RuleStep("validate_volume", validate_volume, "validate_gun_depth")

VGunDepth ==
    RuleStep("validate_gun_depth", validate_gun_depth, "validate_gun_pressure")

VGunPressure ==
    RuleStep("validate_gun_pressure", validate_gun_pressure,
             "validate_gun_timing")

\* validate_gun_timing: find the timing columns; return at once if none
VGunTimingFind ==
    /\ pc = "validate_gun_timing"
    /\ timing_todo' = TimingCols(df)
    /\ pc' = IF TimingCols(df) = <<>> THEN "validate_radial"
             ELSE "timing_warning_pass"
    /\ UNCHANGED <<thresholds, df, log_data, pipelineVars>>

VGunTimingWarning ==
    /\ pc = "timing_warning_pass"
    /\ df' = TimingWarningPass(df, Head(timing_todo), thresholds)
    /\ pc' = "timing_error_pass"
    /\ UNCHANGED <<thresholds, timing_todo, log_data, pipelineVars>>

VGunTimingError ==
    /\ pc = "timing_error_pass"
    /\ df' = TimingErrorPass(df, Head(timing_todo), thresholds)
    /\ timing_todo' = Tail(timing_todo)
    /\ pc' = IF Tail(timing_todo) = <<>> THEN "validate_radial"
             ELSE "timing_warning_pass"
    /\ UNCHANGED <<thresholds, log_data, pipelineVars>>

VRadial == RuleStep("validate_radial", validate_radial, "validate_sma")

VSma == RuleStep("validate_sma", validate_sma, "validated")

\* generate_line_log_report on the validated table
VLineLogReport ==
    /\ pc = "validated"
    /\ log_data' = generate_line_log_report(df)
    /\ pc' = "reported"
    /\ UNCHANGED <<thresholds, df, timing_todo, pipelineVars>>

NextValidate ==
    \/ VInitFlags \/ VSti \/ VSubArraySeparation \/ VCosSeparation
    \/ VVolume \/ VGunDepth \/ VGunPressure
    \/ VGunTimingFind \/ VGunTimingWarning \/ VGunTimingError
    \/ VRadial \/ VSma \/ VLineLogReport

SpecValidate == InitValidate /\ [][NextValidate]_vars

-----------------------------------------------------------------------------
(* Claims on the validator (SpecValidate) *)

\* the physical columns each rule reads
RuleColumns(f) ==
    CASE f = "sti_flag" -> {STI_COL}
      [] f = "sub_array_sep_flag" -> {SEP1, SEP2, SEP3}
      [] f = "cos_sep_flag" -> {COS12, COS23}
      [] f = "volume_flag" -> {VOLUME}
      [] f = "gun_depth_flag" -> {DPT1, DPT2}
      [] f = "gun_pressure_flag" -> {PRS1, PRS2, PRS3, PRS4, PRS5, PRS6}
      [] f = "gun_timing_flag" -> {GUN1, GUN2}
      [] f = "repeatability_flag" -> {RADIAL}
      [] f = "sma_flag" -> {SMA1, SMA2}

ValidateReturned == pc \in {"validated", "reported"}

\* the nine flag columns exist in every row of t and hold 0, 1 or 2, and the
\* flag of a rule whose physical columns are absent from t is 0
FlagsDefinite(t) ==
    \A i \in DOMAIN t.rows :
       /\ DOMAIN t.rows[i].flag = FlagNames
       /\ \A f \in FlagNames :
             /\ t.rows[i].flag[f] \in {0, 1, 2}
             /\ RuleColumns(f) \cap t.cols = {} => t.rows[i].flag[f] = 0

\* C2: after validate_data returns, each of the nine flag columns exists and
\* holds 0, 1 or 2 in every row, and a rule whose physical columns are absent
\* leaves its flag at 0 in every row; validate_data yields such a table for
\* every input table, whichever columns are absent (it does not raise).
C2_FlagsDefinite ==
    /\ pc = "validate_data" => FlagsDefinite(validate_data(df, thresholds))
    /\ ValidateReturned => FlagsDefinite(df)

\* C2 witness: validate_data has returned on a table that lacks the columns
\* of some rules and has those of another, which raised its flag.
C2_Witness ==
    /\ ValidateReturned
    /\ \E f \in FlagNames : RuleColumns(f) \cap df.cols = {}
    /\ \E i \in DOMAIN df.rows : \E f \in FlagNames : df.rows[i].flag[f] = 2
    /\ \E i \in DOMAIN df.rows : \E f \in FlagNames : df.rows[i].flag[f] = 1

InTimingLoop == pc \in {"timing_warning_pass", "timing_error_pass"}

\* C7: while validate_gun_timing processes the timing columns, no pass over
\* any column lowers a row's gun_timing_flag (2 stays 2, 1 never becomes 0).
C7_TimingFlagMonotone ==
    [][InTimingLoop =>
         \A i \in DOMAIN df.rows :
            df'.rows[i].flag["gun_timing_flag"]
                >= df.rows[i].flag["gun_timing_flag"]]_vars

\* C7 witness: the warning pass of a later column has just run on a row that
\* an earlier column had set to 2 and whose value in this column is beyond
\* the warning threshold only.
C7_Witness ==
    /\ pc = "timing_error_pass"
    /\ Len(timing_todo) < Len(TimingCols(df))
    /\ \E i \in DOMAIN df.rows :
          /\ df.rows[i].flag["gun_timing_flag"] = 2
          /\ TimingMask(df.rows[i], Head(timing_todo), thresholds.timing_warning)
          /\ ~TimingMask(df.rows[i], Head(timing_todo), thresholds.timing_error)

SentinelCodes == {CODE_DISABLED, CODE_UNKNOWN, CODE_MISFIRE}

\* every timing value of the row is a sentinel code or within the warning
\* threshold
AllSentinelOrWithin(r) ==
    \A c \in {GUN1, GUN2} \cap df.cols :
        \/ r.phys[c] \in SentinelCodes
        \/ (~IsNull(r.phys[c]) /\ Abs(r.phys[c]) <= thresholds.timing_warning)

\* gun c is listed in a log_misfire_flag entry of shot point sp
InMisfireLog(sp, c) ==
    \E k \in DOMAIN log_data["log_misfire_flag"] :
        /\ log_data["log_misfire_flag"][k][1] = sp
        /\ GunInfo(c) \in Range(log_data["log_misfire_flag"][k][2])

\* C8: a row in which every gun-timing value is a sentinel code (61, 63, 90)
\* or within the warning threshold keeps gun_timing_flag = 0, and each gun
\* whose value is 90 appears in that row's log_misfire_flag entry.
C8_SentinelsNeverFlag ==
    /\ ValidateReturned =>
         \A i \in DOMAIN df.rows :
            AllSentinelOrWithin(df.rows[i])
                => df.rows[i].flag["gun_timing_flag"] = 0
    /\ pc = "reported" =>
         \A i \in DOMAIN df.rows : \A c \in {GUN1, GUN2} \cap df.cols :
            df.rows[i].phys[c] = CODE_MISFIRE
                => InMisfireLog(df.rows[i].shot_point, c)

\* C8 witness: the report is built for a row with 90 on one gun and a value
\* within the warning threshold on the other; its flag is 0 and it is in the
\* misfire log.
C8_Witness ==
    /\ pc = "reported"
    /\ {GUN1, GUN2} \subseteq df.cols
    /\ \E i \in DOMAIN df.rows :
          /\ df.rows[i].phys[GUN2] = CODE_MISFIRE
          /\ df.rows[i].phys[GUN1] = 50
          /\ df.rows[i].flag["gun_timing_flag"] = 0
          /\ InMisfireLog(df.rows[i].shot_point, GUN2)

\* the reading is one that generate_line_log_report and validate_volume take
\* for a misfire or a disabled gun: its absolute value is 90 or 61
ReadAsMisfireOrDisabled(v) ==
    ~IsNull(v) /\ Abs(v) \in {CODE_MISFIRE, CODE_DISABLED}

\* C26: a gun-timing reading that generate_line_log_report or validate_volume
\* classifies as a misfire or a disabled gun (absolute value 90 or 61, so
\* also -90 and -61) never raises gun_timing_flag: a row in which every
\* reading is such a code, missing, or within the warning threshold keeps
\* gun_timing_flag = 0.
C26_MisfireNeverFlagsTiming ==
    ValidateReturned =>
        \A i \in DOMAIN df.rows :
            (\A c \in {GUN1, GUN2} \cap df.cols :
                \/ IsNull(df.rows[i].phys[c])
                \/ ReadAsMisfireOrDisabled(df.rows[i].phys[c])
                \/ Abs(df.rows[i].phys[c]) <= thresholds.timing_warning)
            => df.rows[i].flag["gun_timing_flag"] = 0

\* the list under key has an entry for shot point sp with a gun listed
LoggedWithGun(key, sp) ==
    /\ key \in DOMAIN log_data
    /\ \E k \in DOMAIN log_data[key] :
          log_data[key][k][1] = sp /\ log_data[key][k][2] # <<>>

\* C27: no timing-flagged row is lost from the log: for every configured
\* timing_warning and timing_error, every row with gun_timing_flag = 1 has an
\* entry in log_timing_warning and every row with gun_timing_flag = 2 an
\* entry in log_timing_error, each with at least one gun listed.
C27_TimingRowsLogged ==
    pc = "reported" =>
        \A i \in DOMAIN df.rows :
            /\ df.rows[i].flag["gun_timing_flag"] = 1
                  => LoggedWithGun("log_timing_warning", df.rows[i].shot_point)
            /\ df.rows[i].flag["gun_timing_flag"] = 2
                  => LoggedWithGun("log_timing_error", df.rows[i].shot_point)

\* C29: with both centre-of-source columns in the table
\* (Gunarray301-Gunarray302 and Gunarray302-Gunarray303, a triple-source
\* line), a row whose value in either column lies outside the configured
\* range gets cos_sep_flag = 2.
C29_TripleCosBothColumns ==
    (ValidateReturned /\ {COS12, COS23} \subseteq df.cols) =>
        \A i \in DOMAIN df.rows :
            (\E c \in {COS12, COS23} :
                OutOfRange(df.rows[i], c, thresholds.triple_cos_min,
                           thresholds.triple_cos_max))
            => df.rows[i].flag["cos_sep_flag"] = 2

-----------------------------------------------------------------------------
(* SpecRun: QCWorkerThread.run calling MainWindow._qc_worker_function,     *)
(* with cancel() arriving from the GUI thread at any moment.               *)

\* most copies of one shot point in a secondary table
MaxDup == 2

SecondaryNames == <<"comp", "eol", "asc", "sbs">>

\* the value a secondary table brings for a column (hundredths)
SecValue(c) == IF c = RADIAL THEN 1500 ELSE 200

\* pd.DataFrame(): what an importer returns when it has nothing
EmptyTable == [has_key |-> FALSE, merge_raises |-> FALSE, cols |-> {}, rows |-> <<>>]

SecTable(keys, cs, hasKey, raises) ==
    [has_key |-> hasKey, merge_raises |-> raises, cols |-> cs,
     rows |-> [i \in DOMAIN keys |->
                 [shot_point |-> keys[i], phys |-> [c \in cs |-> SecValue(c)]]]]

\* the tables each importer returns in the model; shot points in tenths
SecondaryChoices(name) ==
    CASE name = "comp" ->
            {EmptyTable, SecTable(<<10010>>, {RADIAL}, TRUE, FALSE),
             SecTable([i \in 1..MaxDup |-> 10010], {RADIAL}, TRUE, FALSE)}
      [] name = "eol" ->
            {EmptyTable, SecTable(<<10010>>, {}, TRUE, FALSE),
             SecTable(<<10015>>, {}, TRUE, FALSE),
             SecTable(<<10010>>, {}, FALSE, FALSE)}
      [] name = "asc" ->
            {EmptyTable, SecTable(<<10010, 10050>>, {}, TRUE, FALSE)}
      [] name = "sbs" ->
            {EmptyTable, SecTable(<<10030>>, {GUN1}, TRUE, FALSE),
             SecTable(<<10010>>, {GUN1}, TRUE, TRUE)}

\* shot points of the base table: none, ascending by 2, or with gaps
BaseShotPoints ==
    {<<>>}
    \cup {[i \in 1..n |-> 999 + 2 * i] : n \in 1..MaxRows}
    \cup {[i \in 1..n |-> 995 + 6 * i] : n \in 2..MaxRows}

MarkerChoices == {NoMarkers, [fgsp |-> 1001, lgsp |-> 1003]}

Progress(value) == [sig |-> "progress", value |-> value]

ErrorSignal == [sig |-> "error"]

\* mutant: run() ignores _is_cancelled
FinishedSignal_IgnoreCancel(cancelled, results) ==
    [sig |-> "finished", success |-> TRUE, results |-> results]

\* run(): the finished signal after the QC function returned results
FinishedSignal(cancelled, results) ==
    IF cancelled
    THEN [sig |-> "finished", success |-> FALSE, results |-> <<>>]
    ELSE [sig |-> "finished", success |-> TRUE, results |-> results]

\* the results dictionary the QC function returns
Results ==
    [merged_df |-> df, log_data |-> log_data, percentages |-> percentages,
     missed_sp |-> missed_sp]

runInputs ==
    <<thresholds, timing_todo, sps_df, secondaries, markers, io, call, filter_todo,
      filtered_data>>

cancelVars == <<is_cancelled, cancel_at, cancel_at_return, cancel_at_check>>

InitRun ==
    /\ pc = "run"
    /\ thresholds = DefaultThresholds
    /\ timing_todo = <<>>
    /\ \E sp \in BaseShotPoints :
           sps_df = MkTable({}, sp, [i \in DOMAIN sp |-> <<>>])
    /\ \E c \in SecondaryChoices("comp"), e \in SecondaryChoices("eol"),
          a \in SecondaryChoices("asc"), b \in SecondaryChoices("sbs") :
           secondaries = [comp |-> c, eol |-> e, asc |-> a, sbs |-> b]
    /\ markers \in MarkerChoices
    /\ io \in [save_ok : BOOLEAN]
    /\ call = NoCall
    /\ df = NoTable
    /\ log_data = NoLog
    /\ merge_todo = <<>>
    /\ join_log = <<>>
    /\ missed_sp = <<>>
    /\ percentages = <<>>
    /\ signals = <<>>
    /\ is_cancelled = FALSE
    /\ cancel_at = "never"
    /\ cancel_at_return = FALSE
    /\ cancel_at_check = FALSE
    /\ fn_outcome = "running"
    /\ started_after_cancel = {}
    /\ db_written = FALSE
    /\ filter_todo = <<>>
    /\ filtered_data = <<>>

\* mutant: a stage begins without emitting its progress value
Begin_Silent(here, value) ==
    /\ pc = here
    /\ signals' = signals
    /\ started_after_cancel' =
           IF is_cancelled THEN started_after_cancel \cup {here}
           ELSE started_after_cancel

\* a stage of the QC function begins: it emits its progress value
Begin(here, value) ==
    /\ pc = here
    /\ signals' = Append(signals, Progress(value))
    /\ started_after_cancel' =
           IF is_cancelled THEN started_after_cancel \cup {here}
           ELSE started_after_cancel

Goto(next) == pc' = next /\ UNCHANGED fn_outcome

\* an exception leaves the QC function and reaches run()'s handler
Raise == pc' = "run_except" /\ fn_outcome' = "raised"

\* run() starts and calls the QC function
RunStart ==
    /\ pc = "run"
    /\ pc' = "import_sps"
    /\ UNCHANGED <<df, log_data, merge_todo, join_log, missed_sp, percentages,
                   signals, fn_outcome, started_after_cancel, db_written,
                   runInputs, cancelVars>>

\* import the base table; an empty one is a ValueError
ImportSps ==
    /\ Begin("import_sps", 10)
    /\ IF sps_df.rows = <<>> THEN Raise ELSE Goto("import_comp")
    /\ UNCHANGED <<df, log_data, merge_todo, join_log, missed_sp, percentages,
                   db_written, runInputs, cancelVars>>

\* a secondary import: any failure was turned into an empty table
ImportSecondary(here, value, next) ==
    /\ Begin(here, value)
    /\ Goto(next)
    /\ UNCHANGED <<df, log_data, merge_todo, join_log, missed_sp, percentages,
                   db_written, runInputs, cancelVars>>

ImportComp == ImportSecondary("import_comp", 20, "import_eol")

ImportEol == ImportSecondary("import_eol", 30, "import_asc")

ImportAsc == ImportSecondary("import_asc", 40, "import_sbs")

ImportSbs == ImportSecondary("import_sbs", 50, "merge")

\* merged_df = sps_df.copy() with shot_point as a zero-padded string
MergeBegin ==
    /\ Begin("merge", 60)
    /\ df' = ShotPointsToStr(sps_df)
    /\ merge_todo' = SecondaryNames
    /\ Goto("merge_loop")
    /\ UNCHANGED <<log_data, join_log, missed_sp, percentages, db_written,
                   runInputs, cancelVars>>

\* one iteration of the loop over merge_dfs
MergeNext ==
    /\ pc = "merge_loop"
    /\ merge_todo # <<>>
    /\ LET name == Head(merge_todo)
           step == MergeOne(df, secondaries[name])
       IN  /\ df' = step.df
           /\ join_log' = (name :> step.outcome) @@ join_log
    /\ merge_todo' = Tail(merge_todo)
    /\ Goto(IF Tail(merge_todo) = <<>> THEN "check_sp" ELSE "merge_loop")
    /\ UNCHANGED <<log_data, missed_sp, percentages, signals,
                   started_after_cancel, db_written, runInputs, cancelVars>>

CheckSp ==
    /\ Begin("check_sp", 65)
    /\ IF CheckSpRaises(df)
       THEN Raise /\ UNCHANGED missed_sp
       ELSE Goto("apply_qc") /\ missed_sp' = check_sp(df)
    /\ UNCHANGED <<df, log_data, merge_todo, join_log, percentages, db_written,
                   runInputs, cancelVars>>

\* validate_data, then the markers are read from the line log
ApplyQc ==
    /\ Begin("apply_qc", 75)
    /\ df' = validate_data(df, thresholds)
    /\ Goto("percentages")
    /\ UNCHANGED <<log_data, merge_todo, join_log, missed_sp, percentages,
                   db_written, runInputs, cancelVars>>

Percentages ==
    /\ Begin("percentages", 85)
    /\ IF PercentagesRaises(df, markers.fgsp, markers.lgsp)
       THEN Raise /\ UNCHANGED percentages
       ELSE /\ Goto("line_log")
            /\ percentages' = calculate_percentages(df, Len(df.rows),
                                                    markers.fgsp, markers.lgsp)
    /\ UNCHANGED <<df, log_data, merge_todo, join_log, missed_sp, db_written,
                   runInputs, cancelVars>>

LineLog ==
    /\ Begin("line_log", 90)
    /\ log_data' = generate_line_log_report(df)
    /\ Goto("consecutive")
    /\ UNCHANGED <<df, merge_todo, join_log, missed_sp, percentages, db_written,
                   runInputs, cancelVars>>

\* check_consecutive_errors: its result is not kept in the model
Consecutive ==
    /\ Begin("consecutive", 95)
    /\ Goto("save")
    /\ UNCHANGED <<df, log_data, merge_todo, join_log, missed_sp, percentages,
                   db_written, runInputs, cancelVars>>

\* save_to_database: writes the file unless the environment refuses
Save ==
    /\ Begin("save", 98)
    /\ db_written' = (io.save_ok /\ df.rows # <<>>)
    /\ Goto("complete")
    /\ UNCHANGED <<df, log_data, merge_todo, join_log, missed_sp, percentages,
                   runInputs, cancelVars>>

\* the QC function emits 100, packages the results and returns
Complete ==
    /\ Begin("complete", 100)
    /\ pc' = "run_check"
    /\ fn_outcome' = "returned"
    /\ cancel_at_return' = is_cancelled
    /\ UNCHANGED <<df, log_data, merge_todo, join_log, missed_sp, percentages,
                   db_written, runInputs, is_cancelled, cancel_at,
                   cancel_at_check>>

\* run(): "if self._is_cancelled" and the finished signal
RunCheck ==
    /\ pc = "run_check"
    /\ cancel_at_check' = is_cancelled
    /\ signals' = Append(signals, FinishedSignal(is_cancelled, Results))
    /\ pc' = "finished"
    /\ UNCHANGED <<df, log_data, merge_todo, join_log, missed_sp, percentages,
                   fn_outcome, started_after_cancel, db_written, runInputs,
                   is_cancelled, cancel_at, cancel_at_return>>

\* run(): the except block emits error, then finished(False, {})
RunExcept ==
    /\ pc = "run_except"
    /\ signals' = signals \o <<ErrorSignal,
                               [sig |-> "finished", success |-> FALSE,
                                results |-> <<>>]>>
    /\ pc' = "finished"
    /\ UNCHANGED <<df, log_data, merge_todo, join_log, missed_sp, percentages,
                   fn_outcome, started_after_cancel, db_written, runInputs,
                   cancelVars>>

\* QCWorkerThread.cancel(), called from the GUI thread while run() is active
Cancel ==
    /\ pc # "finished"
    /\ ~is_cancelled
    /\ is_cancelled' = TRUE
    /\ cancel_at' = pc
    /\ UNCHANGED <<pc, df, log_data, merge_todo, join_log, missed_sp,
                   percentages, signals, fn_outcome, started_after_cancel,
                   db_written, runInputs, cancel_at_return, cancel_at_check>>

NextRun ==
    \/ RunStart \/ ImportSps \/ ImportComp \/ ImportEol \/ ImportAsc
    \/ ImportSbs \/ MergeBegin \/ MergeNext \/ CheckSp \/ ApplyQc
    \/ Percentages \/ LineLog \/ Consecutive \/ Save \/ Complete
    \/ RunCheck \/ RunExcept \/ Cancel

SpecRun == InitRun /\ [][NextRun]_vars

-----------------------------------------------------------------------------
(* Properties of the run *)

\* the loop over merge_dfs has handled all four secondaries
MergeDone == DOMAIN join_log = Range(SecondaryNames)

\* a secondary the loop joins without an exception
Clean(sec) ==
    sec.rows # <<>> /\ sec.has_key /\ ~CastRaises(sec) /\ ~sec.merge_raises

Position(name) == CHOOSE k \in DOMAIN SecondaryNames : SecondaryNames[k] = name

\* C1: after the merge the merged table has exactly as many rows as the
\* base table, whatever the secondaries hold (shot points absent from the
\* base, or the same shot point several times).
C1_MergePreservesRowCount ==
    MergeDone => Len(df.rows) = Len(sps_df.rows)

\* C3: with a non-empty base table the run completes for every combination
\* of empty secondary tables (the others joining cleanly); only an empty
\* base table aborts the run.
C3_EmptySecondariesNeverAbort ==
    (/\ fn_outcome = "raised"
     /\ \A k \in DOMAIN SecondaryNames :
            secondaries[SecondaryNames[k]] = EmptyTable
            \/ Clean(secondaries[SecondaryNames[k]]))
    => sps_df.rows = <<>>

\* C4: when the join of one secondary raises, that secondary is skipped,
\* every later secondary is still joined, and the stages after the merge
\* run to completion on a table whose shot_point column is numeric.
C4_FailedJoinIsSkipped ==
    \A name \in DOMAIN join_log :
        join_log[name] = "failed" =>
            /\ \A other \in DOMAIN join_log :
                   (Position(other) > Position(name) /\ Clean(secondaries[other]))
                   => join_log[other] = "joined"
            /\ MergeDone => (df.sp_dtype = "Int64" /\ fn_outcome # "raised")

\* the stages of the QC function from which the persistence stage is ahead
BeforeSave ==
    {"run", "import_sps", "import_comp", "import_eol", "import_asc",
     "import_sbs", "merge", "merge_loop", "check_sp", "apply_qc",
     "percentages", "line_log", "consecutive"}

\* C5: after cancel() at most the stage then executing completes and no
\* later stage starts; a run cancelled before its persistence stage began
\* does not write the database file.
C5_CancelStopsTheRun ==
    /\ cancel_at # "never" => started_after_cancel \subseteq {cancel_at}
    /\ db_written => cancel_at \notin BeforeSave

FinishedAt == SelectIdx(signals, LAMBDA m : m.sig = "finished", 1)

ErrorAt == SelectIdx(signals, LAMBDA m : m.sig = "error", 1)

\* what run() emitted, given the value of the cancellation flag that counts
RunSignalsAre(cancelled) ==
    /\ Len(FinishedAt) <= 1
    /\ pc = "finished" =>
        /\ Len(FinishedAt) = 1
        /\ signals[FinishedAt[1]] =
               (IF fn_outcome = "returned" /\ ~cancelled
                THEN [sig |-> "finished", success |-> TRUE, results |-> Results]
                ELSE [sig |-> "finished", success |-> FALSE, results |-> <<>>])
        /\ (ErrorAt # <<>>) <=> (fn_outcome = "raised")
        /\ \A k \in DOMAIN ErrorAt : ErrorAt[k] < FinishedAt[1]

\* C6 as stated: finished is emitted exactly once; it is (True, results)
\* exactly when the QC function returned normally and cancel() had not been
\* called by the time it returned, (False, {}) otherwise; error is emitted
\* exactly when the function raised, and before finished.
C6_FinishedOnce_AtReturn == RunSignalsAre(cancel_at_return)

\* C6 amended: the same, with the cancellation flag as run() reads it after
\* the function returned (a cancel() between the return and that read
\* yields (False, {})).
C6_FinishedOnce_AtCheck == RunSignalsAre(cancel_at_check)

C6_Witness ==
    /\ pc = "finished"
    /\ fn_outcome = "returned"
    /\ cancel_at = "run_check"
    /\ ~cancel_at_return
    /\ signals[FinishedAt[1]].success = FALSE

\* the stages of the QC function in the order of its code, and the progress
\* value each one emits
StageOrder ==
    <<"import_sps", "import_comp", "import_eol", "import_asc", "import_sbs",
      "merge", "check_sp", "apply_qc", "percentages", "line_log",
      "consecutive", "save", "complete">>

ProgressValues == <<10, 20, 30, 40, 50, 60, 65, 75, 85, 90, 95, 98, 100>>

\* the progress values emitted so far, in order
Emitted ==
    LET p == SelectSeq(signals, LAMBDA s : s.sig = "progress")
    IN  [k \in DOMAIN p |-> p[k].value]

\* how many stages have run to their end: the stages before the one pc is
\* at, or, after an exception, the stages before the one that raised
StagesFinished ==
    IF fn_outcome = "raised" THEN Len(Emitted) - 1
    ELSE IF pc = "run" THEN 0
    ELSE IF pc = "merge_loop" THEN 5
    ELSE IF pc \in {"run_check", "finished"} THEN Len(StageOrder)
    ELSE (CHOOSE k \in DOMAIN StageOrder : StageOrder[k] = pc) - 1

\* how many stages have begun (the merge has begun while its loop runs)
StagesStarted ==
    IF pc = "merge_loop" THEN 6 ELSE StagesFinished

FlagsWritten ==
    \A i \in DOMAIN df.rows : DOMAIN df.rows[i].flag = FlagNames

\* what holds of the order of stages whenever a checkpoint is emitted
StagesInOrder ==
    \* the stages emit their values in the order of the code, none skipped
    /\ Len(Emitted) <= Len(ProgressValues)
    /\ Emitted = SubSeq(ProgressValues, 1, Len(Emitted))
    \* percentages and the log report start after validate_data
    /\ (\E k \in DOMAIN Emitted : Emitted[k] >= 85) => FlagsWritten
    \* 100 is emitted only when no stage raised
    /\ (\E k \in DOMAIN Emitted : Emitted[k] = 100) => fn_outcome # "raised"

\* C20 (as stated): the stages run one after the other, the progress values
\* are strictly increasing, the checkpoint of a stage is emitted only once
\* that stage has finished, percentages and the log report start after
\* validate_data wrote the flags, and 100 is emitted only when nothing raised.
C20_CheckpointAfterStage ==
    /\ StagesInOrder
    /\ \A k \in DOMAIN Emitted : k <= StagesFinished

\* C20 (amended): as above, except that the checkpoint of a stage is emitted
\* when the stage begins: every stage before it has finished, the stage
\* itself has not run yet.
C20_CheckpointAtStageStart ==
    /\ [](/\ StagesInOrder
          /\ \A k \in DOMAIN Emitted : k - 1 <= StagesFinished
          /\ fn_outcome # "raised" => Len(Emitted) = StagesStarted)
    /\ [][\A k \in DOMAIN StageOrder :
             (Len(Emitted') = k /\ Len(Emitted) = k - 1) =>
                 (pc = StageOrder[k] /\ StagesFinished = k - 1)]_vars

\* C20 witness: 60 has been emitted and the merge loop has not joined
\* anything yet; and a run in which check_sp raised right after 65
C20_Witness ==
    \/ /\ pc = "merge_loop"
       /\ Emitted = <<10, 20, 30, 40, 50, 60>>
       /\ Len(merge_todo) = Len(SecondaryNames)
    \/ /\ pc = "finished"
       /\ fn_outcome = "raised"
       /\ Emitted = <<10, 20, 30, 40, 50, 60, 65>>

-----------------------------------------------------------------------------
(* SpecFilter: LineLogManager._filter_log_data_by_range, entry by entry    *)

\* the keys of the log mapping in the model, in insertion order
FilterKeys ==
    <<"log_sma_flag", "log_timing_error",
      "log_sub_array_sep_percent_violation", "log_gun_depth_sensor_violation",
      "log_consec_7_source_errors">>

\* f"{prefix}{start}-{end}{suffix}", as the report writes a range
RangeText(prefix, start, end, suffix) ==
    prefix \o StrOfInt(start) \o <<"-">> \o StrOfInt(end) \o suffix

RangePrefixes == {<<>>, <<"S", "P", " ">>, <<"S", "e", "n", "s", "o", "r", " ", "1", ":", " ">>}

RangeSuffixes == {<<>>, <<" ", "(", "7", " ", "c", "o", "n", "s", "e", "c", "u", "t", "i", "v", "e", ")">>}

\* shot points at the ends of the ranges of the model
RangeEnds == {1001, 1003, 1005, 1007}

SensorMessage == <<"G", "u", "n", " ", "D", "e", "p", "t", "h", " ", "S", "e", "n", "s", "o", "r", " ", "1", " ", "a", "v", "g", " ", "=", " ", "8", ".", "2", " ", "m", "e", "t", "e", "r", "s">>

\* the items of a range-string list: ranges in either direction, single
\* shot points, and texts that do not parse as a range
RangeItemChoices ==
    {RangeText(p, a, b, x) :
        p \in RangePrefixes, a \in RangeEnds, b \in RangeEnds, x \in RangeSuffixes}
    \cup {StrOfInt(a) : a \in RangeEnds}
    \cup {SensorMessage, RangeText(<<>>, 1001, 1005, <<"-", "1", "0", "0", "9">>),
          RangeText(<<"S", "P">>, 1001, 1005, <<>>), RangeText(<<>>, 1001, 1005, <<"x">>)}

RangeListChoices ==
    {<<>>} \cup {<<a>> : a \in RangeItemChoices}
    \cup {<<RangeText(<<"S", "P", " ">>, 1001, 1003, <<>>), a>> :
             a \in {RangeText(<<"S", "P", " ">>, 1005, 1007, <<>>), SensorMessage}}

Strs(items) == [kind |-> "strs", items |-> items]

Ints(items) == [kind |-> "ints", items |-> items]

Tuples(sps) ==
    [kind |-> "tuples",
     items |-> [i \in DOMAIN sps |-> [sp |-> sps[i], guns |-> <<GUN1>>]]]

MessageText == <<"1", "2", ".", "5", "%", " ", "o", "f", " ", "S", "P", " ", "o", "u", "t", "s", "i", "d", "e", " ", "6", ".", "8", "-", "9", ".", "2", "m", " ", "r", "a", "n", "g", "e">>

FilterMarkerChoices ==
    {[fgsp |-> a, lgsp |-> b] : a \in {1003, 1005}, b \in {1003, 1005}}
    \cup {NoMarkers, [fgsp |-> 1003, lgsp |-> NULL]}

InitFilter ==
    /\ pc = "filter_log_data_by_range"
    /\ markers \in FilterMarkerChoices
    /\ \E plain \in {<<>>, <<1001, 1003, 1007>>},
          pairs \in {<<>>, <<1001, 1005, 1005, 1007>>},
          text \in {<<>>, MessageText},
          sensors \in {<<>>, <<SensorMessage>>,
                       <<RangeText(<<"S", "e", "n", "s", "o", "r", " ", "1", ":", " ">>, 1001, 1005, <<>>)>>},
          ranges \in RangeListChoices :
           log_data =
               [k \in Range(FilterKeys) |->
                   CASE k = "log_sma_flag" -> Ints(plain)
                     [] k = "log_timing_error" -> Tuples(pairs)
                     [] k = "log_sub_array_sep_percent_violation" ->
                            [kind |-> "str", text |-> text]
                     [] k = "log_gun_depth_sensor_violation" -> Strs(sensors)
                     [] k = "log_consec_7_source_errors" -> Strs(ranges)]
    /\ filter_todo = <<>>
    /\ filtered_data = <<>>
    /\ thresholds = DefaultThresholds
    /\ df = NoTable
    /\ timing_todo = <<>>
    /\ sps_df = <<>>
    /\ secondaries = <<>>
    /\ merge_todo = <<>>
    /\ join_log = <<>>
    /\ missed_sp = <<>>
    /\ percentages = <<>>
    /\ signals = <<>>
    /\ is_cancelled = FALSE
    /\ cancel_at = "never"
    /\ cancel_at_return = FALSE
    /\ cancel_at_check = FALSE
    /\ fn_outcome = "running"
    /\ started_after_cancel = {}
    /\ db_written = FALSE
    /\ io = [save_ok |-> FALSE]
    /\ call = NoCall

filterFrame ==
    <<thresholds, df, timing_todo, log_data, sps_df, secondaries, merge_todo,
      join_log, markers, missed_sp, percentages, signals, is_cancelled,
      cancel_at, cancel_at_return, cancel_at_check, fn_outcome,
      started_after_cancel, db_written, io, call>>

\* "if not log_data or fgsp is None or lgsp is None: return log_data"
FilterReturnUnfiltered ==
    /\ pc = "filter_log_data_by_range"
    /\ DOMAIN log_data = {} \/ markers.fgsp = NULL \/ markers.lgsp = NULL
    /\ filtered_data' = log_data
    /\ pc' = "filter_returned"
    /\ UNCHANGED <<filter_todo, filterFrame>>

\* filtered_data = {} and the loop over log_data.items() begins
FilterBegin ==
    /\ pc = "filter_log_data_by_range"
    /\ ~(DOMAIN log_data = {} \/ markers.fgsp = NULL \/ markers.lgsp = NULL)
    /\ filtered_data' = <<>>
    /\ filter_todo' = FilterKeys
    /\ pc' = "filter_loop"
    /\ UNCHANGED filterFrame

\* one iteration of "for key, value in log_data.items()"
FilterEntry ==
    /\ pc = "filter_loop"
    /\ filter_todo # <<>>
    /\ LET key == Head(filter_todo)
           value == log_data[key]
           out == FilterValue(key, value, Min(markers.fgsp, markers.lgsp),
                              Max(markers.fgsp, markers.lgsp))
       IN  filtered_data' =
               IF Falsy(value) \/ Falsy(out) THEN filtered_data
               ELSE (key :> out) @@ filtered_data
    /\ filter_todo' = Tail(filter_todo)
    /\ UNCHANGED <<pc, filterFrame>>

\* "return filtered_data"
FilterReturn ==
    /\ pc = "filter_loop"
    /\ filter_todo = <<>>
    /\ pc' = "filter_returned"
    /\ UNCHANGED <<filter_todo, filtered_data, filterFrame>>

NextFilter ==
    FilterReturnUnfiltered \/ FilterBegin \/ FilterEntry \/ FilterReturn

SpecFilter == InitFilter /\ [][NextFilter]_vars

\* the shot points a range item shows: both ends of a range, or the one
\* shot point of a single item; none when the text does not parse
ShownShotPoints(item) ==
    IF "-" \in Range(item)
    THEN LET parts == SplitOn(item, "-")
         IN  IF Len(parts) # 2 \/ Words(parts[1]) = <<>> \/ Words(parts[2]) = <<>>
             THEN {}
             ELSE LET a == IntOfText(Words(parts[1])[Len(Words(parts[1]))])
                      b == IntOfText(Words(parts[2])[1])
                  IN  IF a = NULL \/ b = NULL THEN {} ELSE {a, b}
    ELSE IF IntOfText(item) = NULL THEN {} ELSE {IntOfText(item)}

\* every shot point of a filtered value lies in [lo, hi]
Contained(value, lo, hi) ==
    CASE value.kind = "str" -> TRUE
      [] value.kind = "tuples" ->
            \A i \in DOMAIN value.items : InProduction(value.items[i].sp, lo, hi)
      [] value.kind = "ints" ->
            \A i \in DOMAIN value.items : InProduction(value.items[i], lo, hi)
      [] value.kind = "strs" ->
            \A i \in DOMAIN value.items :
                \A sp \in ShownShotPoints(value.items[i]) : InProduction(sp, lo, hi)

\* C9: for FGSP and LGSP in either order, every shot point in the output of
\* _filter_log_data_by_range, in plain lists, in (sp, guns) lists and at
\* either end of a re-emitted range string, lies in
\* [min(FGSP, LGSP), max(FGSP, LGSP)].
C9_FilterContainment ==
    (pc \in {"filter_loop", "filter_returned"}
     /\ markers.fgsp # NULL /\ markers.lgsp # NULL)
    => \A k \in DOMAIN filtered_data :
           Contained(filtered_data[k], Min(markers.fgsp, markers.lgsp),
                     Max(markers.fgsp, markers.lgsp))

\* a descending-order marker pair, a range clipped at both ends and
\* re-emitted with its prefix, and a plain list that lost entries
C9_Witness ==
    /\ pc = "filter_returned"
    /\ markers = [fgsp |-> 1005, lgsp |-> 1003]
    /\ log_data["log_consec_7_source_errors"].items
           = <<RangeText(<<"S", "P", " ">>, 1001, 1007, <<" ", "(", "7", " ", "c", "o", "n", "s", "e", "c", "u", "t", "i", "v", "e", ")">>)>>
    /\ "log_consec_7_source_errors" \in DOMAIN filtered_data
    /\ filtered_data["log_consec_7_source_errors"].items
           = <<RangeText(<<"S", "P", " ">>, 1003, 1005, <<>>)>>
    /\ "log_sma_flag" \in DOMAIN filtered_data
    /\ filtered_data["log_sma_flag"].items = <<1003>>

\* the entries of a list value that lie in production
KeptEntries(value, lo, hi) ==
    IF value.kind = "tuples"
    THEN {i \in DOMAIN value.items : InProduction(value.items[i].sp, lo, hi)}
    ELSE {i \in DOMAIN value.items : InProduction(value.items[i], lo, hi)}

\* C23: with both markers given, a key is in the output of
\* _filter_log_data_by_range exactly when its filtered value is not empty
\* (so no key of the output holds an empty value, and a list of shot points
\* or of (sp, guns) pairs is present exactly when one of its entries lies in
\* production), and every free-text value that is not empty is passed
\* through unchanged; with FGSP or LGSP missing the mapping is returned
\* unchanged.
C23_FilterShape ==
    pc = "filter_returned" =>
        IF markers.fgsp = NULL \/ markers.lgsp = NULL
        THEN filtered_data = log_data
        ELSE LET lo == Min(markers.fgsp, markers.lgsp)
                 hi == Max(markers.fgsp, markers.lgsp)
             IN  /\ DOMAIN filtered_data \subseteq DOMAIN log_data
                 /\ \A k \in DOMAIN log_data :
                       LET value == log_data[k]
                           out == FilterValue(k, value, lo, hi)
                       IN  /\ k \in DOMAIN filtered_data <=> ~Falsy(out)
                           /\ k \in DOMAIN filtered_data =>
                                 /\ filtered_data[k] = out
                                 /\ value.kind = "str" =>
                                       /\ filtered_data[k] = value
                                       /\ value.text # <<>>
                                 /\ value.kind # "str" =>
                                       filtered_data[k].items # <<>>
                           /\ value.kind = "str" =>
                                 (k \in DOMAIN filtered_data
                                     <=> value.text # <<>>)
                           /\ value.kind \in {"ints", "tuples"} =>
                                 (k \in DOMAIN filtered_data
                                     <=> KeptEntries(value, lo, hi) # {})

\* C23 witness: both markers given; the (sp, guns) list has entries but none
\* in production and its key is dropped, the message is kept as it was, and
\* the plain list keeps its key with the one entry in production
C23_Witness ==
    /\ pc = "filter_returned"
    /\ markers = [fgsp |-> 1003, lgsp |-> 1003]
    /\ log_data["log_timing_error"].items # <<>>
    /\ "log_timing_error" \notin DOMAIN filtered_data
    /\ "log_sub_array_sep_percent_violation" \in DOMAIN filtered_data
    /\ filtered_data["log_sub_array_sep_percent_violation"].text = MessageText
    /\ filtered_data["log_sma_flag"].items = <<1003>>

\* an item of a range-string list is to be kept: a range a-b, in either
\* direction, when a shot point between a and b lies in [lo, hi]; a single
\* shot point when it lies in [lo, hi]; a text that does not parse, always
KeepsRangeItem(item, lo, hi) ==
    LET shown == ShownShotPoints(item)
    IN  shown = {} \/ \E sp \in lo..hi :
                          /\ \A a \in shown : \E b \in shown : b <= sp
                          /\ \A a \in shown : \E b \in shown : sp <= b

\* the items of the list under key k in the output; none when k is absent
OutputItems(k) ==
    IF k \in DOMAIN filtered_data THEN filtered_data[k].items ELSE <<>>

\* C28: range-string filtering does not depend on the shooting direction: an
\* entry 'SP a-b' is kept by _filter_log_data_by_range exactly when a shot
\* point between a and b (inclusive) lies in the production range, whether
\* a < b or a > b; a descending range that overlaps production is never
\* discarded.
C28_RangeDirectionIndependent ==
    (pc = "filter_returned" /\ markers.fgsp # NULL /\ markers.lgsp # NULL) =>
        \A k \in RANGE_KEYS \cap DOMAIN log_data :
            Len(OutputItems(k))
                = Cardinality({i \in DOMAIN log_data[k].items :
                                  KeepsRangeItem(log_data[k].items[i],
                                      Min(markers.fgsp, markers.lgsp),
                                      Max(markers.fgsp, markers.lgsp))})

-----------------------------------------------------------------------------
(* SpecPercent: calculate_percentages on a validated table, called as the  *)
(* QC function calls it (total_sp = len(merged_df))                        *)

PercentMarkerChoices ==
    {NoMarkers, [fgsp |-> 1001, lgsp |-> NULL], [fgsp |-> 1001, lgsp |-> 1001],
     [fgsp |-> 1003, lgsp |-> 1001], [fgsp |-> 1007, lgsp |-> 1009]}

InitPercent ==
    /\ pc = "calculate_percentages"
    /\ thresholds = DefaultThresholds
    /\ \E cs \in ColSets, n \in 1..MaxRows :
           \E sp \in ShotPointColumns(n), ph \in [1..n -> PhysRows(cs)] :
               df = validate_data(MkTable(cs, sp, ph), thresholds)
    /\ markers \in PercentMarkerChoices
    /\ timing_todo = <<>>
    /\ log_data = NoLog
    /\ sps_df = <<>>
    /\ secondaries = <<>>
    /\ merge_todo = <<>>
    /\ join_log = <<>>
    /\ missed_sp = <<>>
    /\ percentages = <<>>
    /\ signals = <<>>
    /\ is_cancelled = FALSE
    /\ cancel_at = "never"
    /\ cancel_at_return = FALSE
    /\ cancel_at_check = FALSE
    /\ fn_outcome = "running"
    /\ started_after_cancel = {}
    /\ db_written = FALSE
    /\ filter_todo = <<>>
    /\ filtered_data = <<>>
    /\ io = [save_ok |-> FALSE]
    /\ call = NoCall

percentFrame ==
    <<thresholds, timing_todo, log_data, sps_df, secondaries, merge_todo,
      join_log, markers, missed_sp, signals, is_cancelled, cancel_at,
      cancel_at_return, cancel_at_check, fn_outcome, started_after_cancel,
      db_written, filter_todo, filtered_data, io, call>>

CalculatePercentages ==
    /\ pc = "calculate_percentages"
    /\ percentages' = calculate_percentages(df, Len(df.rows), markers.fgsp,
                                            markers.lgsp)
    /\ df' = TableAfterPercentages(df, markers.fgsp, markers.lgsp)
    /\ pc' = "percentages_returned"
    /\ UNCHANGED percentFrame

\* a second call with the same table object and the same markers
CalculatePercentagesAgain ==
    /\ pc = "percentages_returned"
    /\ percentages' = calculate_percentages(df, Len(df.rows), markers.fgsp,
                                            markers.lgsp)
    /\ df' = TableAfterPercentages(df, markers.fgsp, markers.lgsp)
    /\ pc' = "percentages_returned_twice"
    /\ UNCHANGED percentFrame

NextPercent == CalculatePercentages \/ CalculatePercentagesAgain

SpecPercent == InitPercent /\ [][NextPercent]_vars

\* the rows every statistic is to be taken on: the production rows when
\* both markers are given, every row otherwise
StatRows ==
    IF markers.fgsp # NULL /\ markers.lgsp # NULL
    THEN {i \in DOMAIN df.rows :
             /\ df.rows[i].shot_point >= Min(markers.fgsp, markers.lgsp)
             /\ df.rows[i].shot_point <= Max(markers.fgsp, markers.lgsp)}
    ELSE DOMAIN df.rows

CellsAt(level) ==
    {<<i, f>> \in StatRows \X FlagNames : df.rows[i].flag[f] = level}

\* C10: with both markers given, the denominator of every statistic is the
\* number of production rows and every count, per flag and overall, is
\* taken on those rows only; with a marker missing, on the whole table.
C10_StatisticsOnProductionRows ==
    pc = "percentages_returned" =>
        /\ \A f \in FlagNames :
            /\ percentages[f].total.den = Cardinality(StatRows)
            /\ percentages[f].errors.den = Cardinality(StatRows)
            /\ percentages[f].warnings.den = Cardinality(StatRows)
            /\ percentages[f].total_count
                   = Cardinality({i \in StatRows : df.rows[i].flag[f] > 0})
            /\ percentages[f].error_count
                   = Cardinality({i \in StatRows : df.rows[i].flag[f] = 2})
            /\ percentages[f].warning_count
                   = Cardinality({i \in StatRows : df.rows[i].flag[f] = 1})
        /\ percentages["overall"].total.den
               = Cardinality(StatRows) * Len(FLAG_COLUMNS)
        /\ percentages["overall"].error_count = Cardinality(CellsAt(2))
        /\ percentages["overall"].warning_count = Cardinality(CellsAt(1))
        /\ percentages["overall"].total_count
               = Cardinality(CellsAt(1)) + 2 * Cardinality(CellsAt(2))

IsPercentage(p) == p.den > 0 /\ 0 <= p.num /\ p.num <= 100 * p.den

\* C25: every percentage returned by calculate_percentages, per flag,
\* percent_radial, percent_gd_errors and overall, lies between 0 and 100 and
\* is computed over N > 0, for every validated table and every FGSP and LGSP,
\* markers that select no row included.
C25_PercentagesInRange ==
    pc = "percentages_returned" =>
        /\ \A k \in FlagNames \cup {"overall"} :
              /\ IsPercentage(percentages[k].total)
              /\ IsPercentage(percentages[k].errors)
              /\ IsPercentage(percentages[k].warnings)
        /\ IsPercentage(percentages["percent_radial"])
        /\ IsPercentage(percentages["percent_gd_errors"])

-----------------------------------------------------------------------------
(* SpecCheckSp: MainWindow.check_sp on a merged table whose rows arrive in  *)
(* any order, with and without duplicated shot points                      *)

MaxSp == 4

\* shot points of the merged table: odd and even numbers, steps of 1, 2, 4, 6
SpValues == {1001, 1002, 1003, 1005, 1009, 1011}

\* [LineLog] shot_increment of config.ini (fallback 2)
ShotIncrements == {2, 4}

\* merged tables, their shot points as integers
CheckSpTables ==
    {MkTable({}, sp, [i \in DOMAIN sp |-> <<>>]) :
        sp \in UNION {[1..n -> SpValues] : n \in 0..MaxSp}}

InitCheckSp ==
    /\ pc = "check_sp"
    /\ \E t \in CheckSpTables, joined \in BOOLEAN :
           \* the shot points are integers after a successful join and
           \* zero-filled strings when no secondary table was joined
           df = IF joined THEN t ELSE ShotPointsToStr(t)
    /\ thresholds = DefaultThresholds
    /\ timing_todo = <<>>
    /\ log_data = NoLog
    /\ sps_df = <<>>
    /\ secondaries = <<>>
    /\ merge_todo = <<>>
    /\ join_log = <<>>
    /\ markers = NoMarkers
    /\ missed_sp = <<>>
    /\ percentages = <<>>
    /\ signals = <<>>
    /\ is_cancelled = FALSE
    /\ cancel_at = "never"
    /\ cancel_at_return = FALSE
    /\ cancel_at_check = FALSE
    /\ fn_outcome = "running"
    /\ started_after_cancel = {}
    /\ db_written = FALSE
    /\ filter_todo = <<>>
    /\ filtered_data = <<>>
    /\ io = [save_ok |-> FALSE]
    /\ call \in [shot_increment : ShotIncrements]

checkSpFrame ==
    <<thresholds, df, timing_todo, log_data, sps_df, secondaries, merge_todo,
      join_log, markers, percentages, signals, is_cancelled, cancel_at,
      cancel_at_return, cancel_at_check, fn_outcome, started_after_cancel,
      db_written, filter_todo, filtered_data, io, call>>

\* missed_sp = self.check_sp(merged_df)
CheckSpReturn ==
    /\ pc = "check_sp"
    /\ ~CheckSpRaises(df)
    /\ missed_sp' = check_sp(df)
    /\ pc' = "check_sp_returned"
    /\ UNCHANGED checkSpFrame

\* next_ - current on two strings: the call raises and returns nothing
CheckSpRaise ==
    /\ pc = "check_sp"
    /\ CheckSpRaises(df)
    /\ pc' = "check_sp_raised"
    /\ UNCHANGED <<missed_sp, checkSpFrame>>

NextCheckSp == CheckSpReturn \/ CheckSpRaise

SpecCheckSp == InitCheckSp /\ [][NextCheckSp]_vars

\* the set of shot points of the table, whatever the order of its rows
SpSet == Range(ShotPointList(df))

\* a and b follow each other once the shot points are sorted
AdjacentSorted(a, b) ==
    /\ a \in SpSet /\ b \in SpSet /\ a < b
    /\ ~\E c \in SpSet : a < c /\ c < b

\* the values a+2, a+4, ... strictly below b
Cadence(a, b) == {v \in (a + 1)..(b - 1) : (v - a) % 2 = 0}

ReportedBetween(a, b) == {v \in Range(missed_sp) : a < v /\ v < b}

\* check_sp returned on integer shot points (on strings it returns only for a
\* table of at most one row, which has no pair)
ReturnedOnInts == pc = "check_sp_returned" /\ df.sp_dtype = "Int64"

\* C12: check_sp returns, in ascending order and once each, exactly the
\* values a+2, a+4, ... strictly below b for every pair (a, b) adjacent in
\* sorted order whose gap is a miss (b - a > 2) and nothing else; the result
\* depends only on the set of shot points, so it is the same for ascending,
\* descending or shuffled rows.
C12_MissedShotPoints ==
    /\ (pc = "check_sp_returned" /\ df.sp_dtype = "str") => missed_sp = <<>>
    /\ ReturnedOnInts =>
        /\ \A i, j \in DOMAIN missed_sp : i < j => missed_sp[i] < missed_sp[j]
        /\ Range(missed_sp) =
              UNION {Cadence(a, b) : <<a, b>> \in
                        {p \in SpSet \X SpSet :
                            AdjacentSorted(p[1], p[2]) /\ p[2] - p[1] > 2}}

\* C12 witness: the rows [1011, 1009, 1003, 1001] arrive in descending order
\* and [1005, 1007] is returned
C12_Witness ==
    /\ pc = "check_sp_returned"
    /\ ShotPointList(df) = <<1011, 1009, 1003, 1001>>
    /\ missed_sp = <<1005, 1007>>

\* C17 (as stated): a pair adjacent in sorted order produces reported missing
\* values only when its gap exceeds twice the configured shot increment.
C17_MissOnlyAboveTwiceStep ==
    ReturnedOnInts =>
        \A a, b \in SpSet :
            (AdjacentSorted(a, b) /\ ReportedBetween(a, b) # {})
                => b - a > 2 * call.shot_increment

\* C17 (amended): a pair adjacent in sorted order produces reported missing
\* values exactly when its gap exceeds 2, whatever shot increment is
\* configured; a duplicate or a pair at a gap of 1 or 2 produces none.
C17_MissIffGapAboveTwo ==
    ReturnedOnInts =>
        \A a, b \in SpSet :
            AdjacentSorted(a, b) => (ReportedBetween(a, b) # {} <=> b - a > 2)

\* C17 witness: shot points 1001 and 1005 with the default increment of 2, a
\* gap of exactly twice the step, and 1003 is reported
C17_Witness ==
    /\ pc = "check_sp_returned"
    /\ ShotPointList(df) = <<1001, 1005>>
    /\ call.shot_increment = 2
    /\ missed_sp = <<1003>>

-----------------------------------------------------------------------------
(* SpecDetectRange: LineLogManager.detect_range on a list of shot points   *)
(* in any order; call = [shot_points, shot_increment, result], where       *)
(* shot_increment is the value of the configuration the manager was built  *)
(* with; detect_range is a staticmethod and is not given it                *)

\* the text of one range: str(start) or f"{start}-{end}"
RangeLabel(start, end) ==
    IF start = end THEN StrOfInt(start)
    ELSE StrOfInt(start) \o <<"-">> \o StrOfInt(end)

\* mutant: the range under way is not appended after the loop
RECURSIVE DetectRanges_DropsLast(_, _, _, _)
DetectRanges_DropsLast(sorted_points, i, start, end) ==
    IF i > Len(sorted_points) THEN <<>>
    ELSE IF sorted_points[i] = end + 2
    THEN DetectRanges_DropsLast(sorted_points, i + 1, start, sorted_points[i])
    ELSE <<RangeLabel(start, end)>>
         \o DetectRanges_DropsLast(sorted_points, i + 1, sorted_points[i],
                                   sorted_points[i])

\* the list ranges: the loop from position i on, start and end being those of
\* the range under way, then the last range
RECURSIVE DetectRanges(_, _, _, _)
DetectRanges(sorted_points, i, start, end) ==
    IF i > Len(sorted_points) THEN <<RangeLabel(start, end)>>
    ELSE IF sorted_points[i] = end + 2
    THEN DetectRanges(sorted_points, i + 1, start, sorted_points[i])
    ELSE <<RangeLabel(start, end)>>
         \o DetectRanges(sorted_points, i + 1, sorted_points[i],
                         sorted_points[i])

\* sep.join(parts)
RECURSIVE JoinText(_, _)
JoinText(parts, sep) ==
    IF parts = <<>> THEN <<>>
    ELSE IF Len(parts) = 1 THEN parts[1]
    ELSE parts[1] \o sep \o JoinText(Tail(parts), sep)

\* mutant: the points are taken in the order given
SortedPoints_AsGiven(shot_points) == shot_points

\* sorted(shot_points)
SortedPoints(shot_points) == SortSeq(shot_points, LAMBDA a, b : a < b)

detect_range(shot_points) ==
    IF shot_points = <<>> THEN <<>>
    ELSE LET sorted_points == SortedPoints(shot_points)
             ranges == DetectRanges(sorted_points, 2, sorted_points[1],
                                    sorted_points[1])
         IN  <<"T", "o", "t", "a", "l", " ">> \o StrOfInt(Len(sorted_points))
             \o <<" ", "S", "P", ".", " ">> \o JoinText(ranges, <<",", " ">>)

MaxPoints == 3

\* shot points with one, two and three digits, at steps of 1, 2 and more
DetectValues == {7, 9, 11, 12, 99, 101}

DetectInputs == UNION {[1..n -> DetectValues] : n \in 0..MaxPoints}

\* values of shot_increment in the configuration
DetectIncrements == {1, 2}

InitDetectRange ==
    /\ pc = "detect_range"
    /\ FunctionAtRest
    /\ \E sp \in DetectInputs, s \in DetectIncrements :
           call = [shot_points |-> sp, shot_increment |-> s, result |-> NULL]

\* if not shot_points: return ""
DetectRangeEmpty ==
    /\ pc = "detect_range"
    /\ call.shot_points = <<>>
    /\ call' = [call EXCEPT !.result = <<>>]
    /\ pc' = "detect_range_returned"
    /\ UNCHANGED callFrame

DetectRangeReturn ==
    /\ pc = "detect_range"
    /\ call.shot_points # <<>>
    /\ call' = [call EXCEPT !.result = detect_range(call.shot_points)]
    /\ pc' = "detect_range_returned"
    /\ UNCHANGED callFrame

NextDetectRange == DetectRangeEmpty \/ DetectRangeReturn

SpecDetectRange == InitDetectRange /\ [][NextDetectRange]_vars

\* the k-th value of s in ascending order, found by counting
Ascending(s) ==
    [k \in DOMAIN s |->
        CHOOSE v \in Range(s) :
            /\ Cardinality({i \in DOMAIN s : s[i] < v}) < k
            /\ k <= Cardinality({i \in DOMAIN s : s[i] <= v})]

\* the members of a set of integers in ascending order
Ranked(S) ==
    [k \in 1..Cardinality(S) |->
        CHOOSE x \in S : Cardinality({y \in S : y < x}) = k - 1]

\* positions of a at which a maximal run of step 2 starts
RunStarts(a) == {i \in DOMAIN a : i = 1 \/ a[i] # a[i - 1] + 2}

\* the last position of the run that starts at i
RunEnd(a, i) ==
    CHOOSE j \in i..Len(a) :
        /\ \A k \in (i + 1)..j : a[k] = a[k - 1] + 2
        /\ (j = Len(a) \/ a[j + 1] # a[j] + 2)

\* the maximal runs of a, each rendered as start-end or as the bare number
RunLabels(a) ==
    LET starts == Ranked(RunStarts(a))
    IN  [k \in DOMAIN starts |->
            IF RunEnd(a, starts[k]) = starts[k] THEN StrOfInt(a[starts[k]])
            ELSE StrOfInt(a[starts[k]]) \o <<"-">>
                 \o StrOfInt(a[RunEnd(a, starts[k])])]

\* C13: detect_range is order-independent and groups maximally: an empty
\* list gives the empty string; any other list, in any order, gives
\* "Total <n> SP. " with n the length of the list, followed by the maximal
\* runs of step 2 of the sorted list, a run of several points as start-end
\* and a single point as the bare number.
C13_DetectRangeText ==
    pc = "detect_range_returned" =>
        IF call.shot_points = <<>> THEN call.result = <<>>
        ELSE call.result =
                <<"T", "o", "t", "a", "l", " ">>
                \o StrOfInt(Len(call.shot_points))
                \o <<" ", "S", "P", ".", " ">>
                \o JoinText(RunLabels(Ascending(call.shot_points)), <<",", " ">>)

\* C13 witness: [101, 7, 99] gives "Total 3 SP. 7, 99-101"
C13_Witness ==
    /\ pc = "detect_range_returned"
    /\ call.shot_points = <<101, 7, 99>>
    /\ call.result = <<"T", "o", "t", "a", "l", " ", "3", " ", "S", "P", ".",
                       " ", "7", ",", " ", "9", "9", "-", "1", "0", "1">>

\* the points of one item of the output: start, start+2, ..., end for
\* start-end, the number itself for a single point
ExpandItem(item) ==
    LET parts == SplitOn(StripText(item), "-")
    IN  IF Len(parts) = 2
        THEN {v \in IntOfText(parts[1])..IntOfText(parts[2]) :
                 (v - IntOfText(parts[1])) % 2 = 0}
        ELSE {IntOfText(item)}

\* the points named by the text that follows "Total <n> SP. "
ExpandRanges(text) ==
    LET at == FindFirst(text, <<".", " ">>)
        items == SplitOn(SubSeq(text, at + 2, Len(text)), ",")
    IN  UNION {ExpandItem(items[k]) : k \in DOMAIN items}

Distinct(s) == \A i, j \in DOMAIN s : i # j => s[i] # s[j]

\* C14: for a list of distinct positive integers, expanding every range of
\* detect_range's output gives back exactly the set of the input: no point
\* is lost and none is invented.
C14_RangeRoundTrip ==
    (/\ pc = "detect_range_returned"
     /\ call.shot_points # <<>>
     /\ Distinct(call.shot_points))
        => ExpandRanges(call.result) = Range(call.shot_points)

\* C14 witness: [12, 11, 9] is rendered "Total 3 SP. 9-11, 12" and expands
\* to {9, 11, 12}
C14_Witness ==
    /\ pc = "detect_range_returned"
    /\ call.shot_points = <<12, 11, 9>>
    /\ ExpandRanges(call.result) = {9, 11, 12}

\* the maximal runs of a in which consecutive values differ by exactly s,
\* each rendered as start-end or as the bare number
StepRunLabels(a, s) ==
    LET starts == Ranked({i \in DOMAIN a : i = 1 \/ a[i] # a[i - 1] + s})
        last(k) == IF k = Len(starts) THEN Len(a) ELSE starts[k + 1] - 1
    IN  [k \in DOMAIN starts |-> RangeLabel(a[starts[k]], a[last(k)])]

\* C22: detect_range merges on the configured step: with the shot increment
\* configured as s, two consecutive sorted values are in the same range
\* exactly when they differ by s, so the ranges of the output are the
\* maximal runs of step s of the sorted input.
C22_MergesOnConfiguredStep ==
    (pc = "detect_range_returned" /\ call.shot_points # <<>>) =>
        call.result =
            <<"T", "o", "t", "a", "l", " ">>
            \o StrOfInt(Len(call.shot_points))
            \o <<" ", "S", "P", ".", " ">>
            \o JoinText(StepRunLabels(Ascending(call.shot_points),
                                      call.shot_increment), <<",", " ">>)

-----------------------------------------------------------------------------
(* SpecOpen: LineLogManager.open_workbook_with_retry; call = [max_attempts,*)
(* attempt, history (outcome of every load_workbook call, in order),       *)
(* waited (seconds slept), wb, result]                                     *)

MaxAttempts == 6

\* [LineLog] max_open_attempts (fallback 5)
MaxAttemptsChoices == 0..MaxAttempts

\* what openpyxl.load_workbook does: returns, raises PermissionError, or
\* raises another exception
LoadOutcomes == {"ok", "PermissionError", "FileNotFoundError", "InvalidFileException"}

RETRY_WAIT == 2

InitOpen ==
    /\ pc = "load_workbook"
    /\ FunctionAtRest
    /\ \E m \in MaxAttemptsChoices :
           call = [max_attempts |-> m, attempt |-> 0, history |-> <<>>,
                   waited |-> 0, wb |-> "None", result |-> "unset"]

\* mutant: the last attempt is taken to be one further
LastAttempt_OneMore(attempt, max_attempts) == ~(attempt < max_attempts)

\* not (attempt < self.max_attempts - 1)
LastAttempt(attempt, max_attempts) == ~(attempt < max_attempts - 1)

\* range(self.max_attempts) still has a value for attempt
InLoop == pc = "load_workbook" /\ call.attempt < call.max_attempts

\* load_workbook returns: break, return wb
LoadSucceeds ==
    /\ InLoop
    /\ call' = [call EXCEPT !.history = Append(@, "ok"), !.wb = "workbook",
                            !.result = "workbook"]
    /\ pc' = "open_returned"
    /\ UNCHANGED callFrame

\* except PermissionError: sleep and go round, or return None on the last attempt
LoadPermissionError ==
    /\ InLoop
    /\ IF LastAttempt(call.attempt, call.max_attempts)
       THEN /\ call' = [call EXCEPT !.history = Append(@, "PermissionError"),
                                    !.result = "None"]
            /\ pc' = "open_returned"
       ELSE /\ call' = [call EXCEPT !.history = Append(@, "PermissionError")]
            /\ pc' = "sleep"
    /\ UNCHANGED callFrame

\* except Exception: return None
LoadOtherError ==
    /\ InLoop
    /\ \E e \in LoadOutcomes \ {"ok", "PermissionError"} :
           call' = [call EXCEPT !.history = Append(@, e), !.result = "None"]
    /\ pc' = "open_returned"
    /\ UNCHANGED callFrame

\* time.sleep(2), then the next value of attempt
Sleep ==
    /\ pc = "sleep"
    /\ call' = [call EXCEPT !.waited = @ + RETRY_WAIT, !.attempt = @ + 1]
    /\ pc' = "load_workbook"
    /\ UNCHANGED callFrame

\* the for loop has run out of values: return wb
LoopExhausted ==
    /\ pc = "load_workbook"
    /\ ~(call.attempt < call.max_attempts)
    /\ call' = [call EXCEPT !.result = call.wb]
    /\ pc' = "open_returned"
    /\ UNCHANGED callFrame

NextOpen ==
    \/ LoadSucceeds
    \/ LoadPermissionError
    \/ LoadOtherError
    \/ Sleep
    \/ LoopExhausted

SpecOpen == InitOpen /\ [][NextOpen]_vars

\* load_workbook and time.sleep return and the method runs on one thread
\* without waiting for anything else
SpecOpenFair == SpecOpen /\ WF_vars(NextOpen)

AllPermissionErrors(h) == \A i \in DOMAIN h : h[i] = "PermissionError"

OpenSafe ==
    /\ Len(call.history) <= call.max_attempts
    \* a further attempt is made only after PermissionError and a 2 s wait
    /\ pc \in {"load_workbook", "sleep"} => AllPermissionErrors(call.history)
    /\ pc = "load_workbook" => call.waited = RETRY_WAIT * Len(call.history)
    /\ pc = "open_returned" =>
          LET h == call.history
              n == Len(h)
          IN  /\ AllPermissionErrors(SubSeq(h, 1, n - 1))
              /\ call.waited = RETRY_WAIT * (IF n = 0 THEN 0 ELSE n - 1)
              /\ call.result = "workbook" <=> (n > 0 /\ h[n] = "ok")
              /\ call.result # "workbook" => call.result = "None"
              /\ (n > 0 /\ h[n] = "PermissionError") => n = call.max_attempts

\* C15: open_workbook_with_retry makes at most max_open_attempts load
\* attempts, waits 2 seconds between two attempts, tries again only after
\* PermissionError, returns the workbook on the first success, None after
\* max_open_attempts PermissionErrors in a row and None at once on any other
\* exception; and it returns.
C15_OpenTerminates == []OpenSafe /\ <>(pc = "open_returned")

\* C15 witness: five attempts configured, five PermissionErrors, 8 seconds
\* waited, None returned
C15_Witness ==
    /\ pc = "open_returned"
    /\ call.max_attempts = 5
    /\ Len(call.history) = 5 /\ AllPermissionErrors(call.history)
    /\ call.waited = 8
    /\ call.result = "None"

-----------------------------------------------------------------------------
(* SpecMarkerTiming: QCReportGenerator.validate_marker_timing.             *)
(* call = [table, markers, warning_threshold, error_threshold, results];   *)
(* a row of the table is [shot_point, time_UTC], time_UTC being the        *)
(* integer read from the HHMMSS field of the SPS file (00:12:34 is 1234)   *)
(* or NULL; a marker is [present, sp, time], present being FALSE for None  *)
(* and time the empty text for None.                                       *)

marker_order == <<"FOSP", "LOSP", "FGSP", "LGSP", "LSP">>

\* str.isdigit()
IsDigitText(s) == s # <<>> /\ \A i \in DOMAIN s : IsDigit(s[i])

\* str.count(ch)
CountChar(s, ch) == Cardinality({i \in DOMAIN s : s[i] = ch})

\* integer format: HHMMSS, HMMSS, HHMM or HMM to HH:MM, by length
ClockOfDigits(s) ==
    CASE Len(s) = 6 -> SubSeq(s, 1, 2) \o <<":">> \o SubSeq(s, 3, 4)
      [] Len(s) = 5 -> <<"0", s[1], ":">> \o SubSeq(s, 2, 3)
      [] Len(s) = 4 -> SubSeq(s, 1, 2) \o <<":">> \o SubSeq(s, 3, 4)
      [] Len(s) = 3 -> <<"0", s[1], ":">> \o SubSeq(s, 2, 3)
      [] OTHER -> s

\* ':'.join(s.split(':')[:2]) when s has two colons
HoursMinutes(s) ==
    IF CountChar(s, ":") = 2
    THEN SplitOn(s, ":")[1] \o <<":">> \o SplitOn(s, ":")[2]
    ELSE s

\* the line-log time text as handed to strptime
LineLogClock(text) ==
    LET stripped == StripText(text)
        clock == HoursMinutes(IF ":" \notin Range(stripped) /\ IsDigitText(stripped)
                              THEN ClockOfDigits(stripped) ELSE stripped)
    IN  IF Len(SplitOn(clock, ":")[1]) = 1 THEN <<"0">> \o clock ELSE clock

\* the SPS time text as handed to strptime
SpsClock(text) ==
    LET stripped == StripText(text)
        clock == HoursMinutes(IF ":" \notin Range(stripped) /\ IsDigitText(stripped)
                              THEN ClockOfDigits(stripped) ELSE stripped)
    IN  IF ":" \in Range(clock) /\ Len(SplitOn(clock, ":")[1]) = 1
        THEN <<"0">> \o clock ELSE clock

\* datetime.strptime(s, '%H:%M'): hour * 60 + minute, NULL for ValueError
StrptimeMinutes(s) ==
    LET parts == SplitOn(s, ":")
    IN  IF /\ Len(parts) = 2
           /\ \A k \in 1..2 : IsDigitText(parts[k]) /\ Len(parts[k]) <= 2
           /\ DigitsValue(parts[1]) <= 23
           /\ DigitsValue(parts[2]) <= 59
        THEN DigitsValue(parts[1]) * 60 + DigitsValue(parts[2])
        ELSE NULL

\* merged_df[merged_df['shot_point'] == sp]
SpRows(table, sp) == SelectSeq(table, LAMBDA row : row.shot_point = sp)

\* str(sps_time_val): the column is int64, or float64 when a value is missing
SpsTimeText(table, value) ==
    IF \E i \in DOMAIN table : table[i].time_UTC = NULL
    THEN StrOfInt(value) \o <<".", "0">>
    ELSE StrOfInt(value)

MarkerStatus(diff_minutes, warning_threshold, error_threshold) ==
    IF diff_minutes <= warning_threshold THEN "OK"
    ELSE IF diff_minutes <= error_threshold THEN "WARNING"
    ELSE "ERROR"

\* one iteration of the loop over marker_order: the entry appended to
\* details, of status "SKIPPED" when the iteration appends nothing
MarkerDetail(marker_name, table, mk, warning_threshold, error_threshold) ==
    LET marker_data == mk[marker_name]
        skipped == [marker |-> marker_name, sp |-> NULL,
                    diff_minutes |-> NULL, status |-> "SKIPPED"]
    IN  IF ~marker_data.present THEN skipped
        ELSE IF marker_data.sp = NULL \/ marker_data.time = <<>> THEN skipped
        ELSE IF SpRows(table, marker_data.sp) = <<>>
        THEN [marker |-> marker_name, sp |-> marker_data.sp,
              diff_minutes |-> NULL, status |-> "NOT_FOUND"]
        ELSE IF SpRows(table, marker_data.sp)[1].time_UTC = NULL
        THEN [marker |-> marker_name, sp |-> marker_data.sp,
              diff_minutes |-> NULL, status |-> "NO_TIME"]
        ELSE LET linelog_minutes ==
                     StrptimeMinutes(LineLogClock(marker_data.time))
                 sps_minutes ==
                     StrptimeMinutes(SpsClock(SpsTimeText(table,
                         SpRows(table, marker_data.sp)[1].time_UTC)))
             IN  IF linelog_minutes = NULL \/ sps_minutes = NULL
                 THEN [marker |-> marker_name, sp |-> marker_data.sp,
                       diff_minutes |-> NULL, status |-> "PARSE_ERROR"]
                 ELSE [marker |-> marker_name, sp |-> marker_data.sp,
                       diff_minutes |-> Abs(linelog_minutes - sps_minutes),
                       status |-> MarkerStatus(Abs(linelog_minutes - sps_minutes),
                                               warning_threshold, error_threshold)]

RECURSIVE MarkerDetails(_, _, _, _, _)
MarkerDetails(i, table, mk, warning_threshold, error_threshold) ==
    IF i > Len(marker_order) THEN <<>>
    ELSE LET d == MarkerDetail(marker_order[i], table, mk, warning_threshold,
                               error_threshold)
         IN  (IF d.status = "SKIPPED" THEN <<>> ELSE <<d>>)
             \o MarkerDetails(i + 1, table, mk, warning_threshold,
                              error_threshold)

CountStatus(details, statuses) ==
    Cardinality({i \in DOMAIN details : details[i].status \in statuses})

validate_marker_timing(table, mk, warning_threshold, error_threshold) ==
    LET details == MarkerDetails(1, table, mk, warning_threshold, error_threshold)
    IN  [summary |->
            [ok |-> CountStatus(details, {"OK"}),
             warnings |-> CountStatus(details, {"WARNING", "NOT_FOUND",
                                                "NO_TIME", "PARSE_ERROR"}),
             errors |-> CountStatus(details, {"ERROR"})],
         details |-> details]

\* HHMMSS fields of the SPS file as integers: 00:12:34, 10:41:50, 10:46:30,
\* 10:52:00
TableTimes == {1234, 104150, 104630, 105200}

MarkerTables ==
    UNION {{[i \in 1..n |-> [shot_point |-> 999 + 2 * i, time_UTC |-> tm[i]]] :
               tm \in [1..n -> TableTimes \cup {NULL}]} : n \in 1..MaxRows}

\* str(time_cell) of column B: a time cell gives HH:MM:SS, a text cell HH:MM
LineLogTimes ==
    {<<"0", "0", ":", "1", "2", ":", "0", "0">>,
     <<"1", "0", ":", "4", "1", ":", "0", "0">>,
     <<"1", "0", ":", "5", "1">>}

NoMarker == [present |-> FALSE, sp |-> NULL, time |-> <<>>]

MarkerValues(sps) ==
    {NoMarker} \cup [present : {TRUE}, sp : sps, time : LineLogTimes \cup {<<>>}]

MarkerSets ==
    {[m \in Range(marker_order) |->
         CASE m = "FGSP" -> f [] m = "LGSP" -> l [] OTHER -> NoMarker] :
        f \in MarkerValues({1001, 1007}), l \in MarkerValues({1003})}

\* marker_time_warning_threshold, marker_time_error_threshold (fallback 5, 10)
MarkerThresholds == {<<5, 10>>, <<0, 11>>}

InitMarkerTiming ==
    /\ pc = "validate_marker_timing"
    /\ FunctionAtRest
    /\ \E t \in MarkerTables, mk \in MarkerSets, th \in MarkerThresholds :
           call = [table |-> t, markers |-> mk, warning_threshold |-> th[1],
                   error_threshold |-> th[2], results |-> NULL]

ValidateMarkerTiming ==
    /\ pc = "validate_marker_timing"
    /\ call' = [call EXCEPT !.results =
                   validate_marker_timing(call.table, call.markers,
                                          call.warning_threshold,
                                          call.error_threshold)]
    /\ pc' = "marker_timing_returned"
    /\ UNCHANGED callFrame

NextMarkerTiming == ValidateMarkerTiming

SpecMarkerTiming == InitMarkerTiming /\ [][NextMarkerTiming]_vars

\* minutes since midnight of an HHMMSS value
MinutesOfField(hhmmss) == ((hhmmss \div 10000) * 60) + ((hhmmss \div 100) % 100)

\* minutes since midnight of a line-log text HH:MM or HH:MM:SS
MinutesOfText(text) ==
    ((DigitVal(text[1]) * 10 + DigitVal(text[2])) * 60)
    + (DigitVal(text[4]) * 10) + DigitVal(text[5])

\* the markers that have a shot point and a line-log time
GivenMarkers ==
    {m \in Range(marker_order) :
        call.markers[m].present /\ call.markers[m].time # <<>>}

\* the status recorded for marker m ("" when there is none)
StatusOf(m) ==
    LET d == call.results.details
        hits == {i \in DOMAIN d : d[i].marker = m}
    IN  IF hits = {} THEN "" ELSE d[CHOOSE i \in hits : TRUE].status

\* the time of the first row of the table that has the marker's shot point
TableTimeOf(m) == SpRows(call.table, call.markers[m].sp)[1].time_UTC

\* C16: a marker whose shot point is in the table with a time value has the
\* status OK iff diff <= warning threshold, WARNING iff warning < diff <=
\* error threshold and ERROR iff diff > error threshold, diff being the
\* absolute difference in minutes between the line-log time and the table
\* time; a marker whose shot point is absent or has no time value has the
\* status NOT_FOUND or NO_TIME and is not counted in summary.errors.
C16_MarkerClassification ==
    pc = "marker_timing_returned" =>
        /\ \A m \in GivenMarkers :
              IF SpRows(call.table, call.markers[m].sp) = <<>>
              THEN StatusOf(m) = "NOT_FOUND"
              ELSE IF TableTimeOf(m) = NULL THEN StatusOf(m) = "NO_TIME"
              ELSE LET diff == Abs(MinutesOfText(call.markers[m].time)
                                   - MinutesOfField(TableTimeOf(m)))
                   IN  /\ StatusOf(m) = "OK" <=> diff <= call.warning_threshold
                       /\ StatusOf(m) = "WARNING" <=>
                             (call.warning_threshold < diff
                              /\ diff <= call.error_threshold)
                       /\ StatusOf(m) = "ERROR" <=> diff > call.error_threshold
        /\ call.results.summary.errors =
              Cardinality({m \in GivenMarkers : StatusOf(m) = "ERROR"})

-----------------------------------------------------------------------------
(* SpecWindows: QCValidator.check_source_error_windows and                 *)
(* _sliding_window_check on a validated table, in row order.               *)
(* call = [rows, th, results]; a row is [shot_point, flag]; th holds the   *)
(* configured window sizes and thresholds.                                 *)

SOURCE_ERROR_FLAGS ==
    {"volume_flag", "gun_depth_flag", "gun_pressure_flag", "gun_timing_flag",
     "sma_flag"}

\* mutant: a warning (flag 1) counts as a source error
SourceErrorFlags_CountsWarnings(rows) ==
    [i \in DOMAIN rows |->
        IF \E f \in SOURCE_ERROR_FLAGS : rows[i].flag[f] >= 1 THEN 1 ELSE 0]

\* source_error_flags: 1 where one of the five flags equals 2
SourceErrorFlags(rows) ==
    [i \in DOMAIN rows |->
        IF \E f \in SOURCE_ERROR_FLAGS : rows[i].flag[f] = 2 THEN 1 ELSE 0]

\* Check 1, the loop from row i on: consec_7 as (start, end, count) entries
RECURSIVE ConsecLoop(_, _, _, _, _, _, _)
ConsecLoop(shot_points, flags, window, i, consec_count, consec_start, found) ==
    IF i > Len(shot_points) THEN found
    ELSE IF flags[i] = 1
    THEN LET start == IF consec_count = 0 THEN shot_points[i] ELSE consec_start
             count == consec_count + 1
         IN  ConsecLoop(shot_points, flags, window, i + 1, count, start,
                 IF count >= window
                    /\ (found = <<>> \/ found[Len(found)][2] # shot_points[i])
                 THEN Append(found, <<start, shot_points[i], count>>)
                 ELSE found)
    ELSE ConsecLoop(shot_points, flags, window, i + 1, 0, NULL, found)

\* _sliding_window_check, the loop from window i on
RECURSIVE SlidingLoop(_, _, _, _, _, _)
SlidingLoop(flags_list, shot_points, window_size, threshold, i, violations) ==
    IF i > Len(flags_list) - window_size + 1 THEN violations
    ELSE LET error_count == SumSeq(SubSeq(flags_list, i, i + window_size - 1))
             end_sp == shot_points[i + window_size - 1]
         IN  SlidingLoop(flags_list, shot_points, window_size, threshold, i + 1,
                 IF error_count >= threshold
                    /\ (violations = <<>>
                        \/ violations[Len(violations)][2] # end_sp)
                 THEN Append(violations, <<shot_points[i], end_sp>>)
                 ELSE violations)

sliding_window_check(flags, shot_points, window_size, threshold) ==
    SlidingLoop(flags, shot_points, window_size, threshold, 1, <<>>)

check_source_error_windows(rows, th) ==
    LET source_error_flags == SourceErrorFlags(rows)
        shot_points == [i \in DOMAIN rows |-> rows[i].shot_point]
        total_sp == Len(rows)
    IN  [consec_7 |->
            ConsecLoop(shot_points, source_error_flags,
                       th.consec_error_window_7, 1, 0, NULL, <<>>),
         window_12_of_24 |->
            sliding_window_check(source_error_flags, shot_points,
                                 th.consec_error_window_24,
                                 th.consec_error_threshold_12_of_24),
         window_16_of_40 |->
            sliding_window_check(source_error_flags, shot_points,
                                 th.consec_error_window_40,
                                 th.consec_error_threshold_16_of_40),
         \* error_count / total_sp * 100 >= consec_error_percent_total
         percent_3_total |->
            IF total_sp > 0
            THEN SumSeq(source_error_flags) * 100
                    >= th.consec_error_percent_total * total_sp
            ELSE 0 >= th.consec_error_percent_total]

MaxWinRows == 4

\* window sizes and thresholds as configured in [QC_Thresholds]
WindowConfigs ==
    {[consec_error_window_7 |-> 2, consec_error_window_24 |-> 2,
      consec_error_threshold_12_of_24 |-> 1, consec_error_window_40 |-> 3,
      consec_error_threshold_16_of_40 |-> 2, consec_error_percent_total |-> 3],
     [consec_error_window_7 |-> 3, consec_error_window_24 |-> 3,
      consec_error_threshold_12_of_24 |-> 2, consec_error_window_40 |-> 4,
      consec_error_threshold_16_of_40 |-> 2, consec_error_percent_total |-> 50]}

\* flag columns of a validated row: clean, an sma error, a volume error, and a
\* timing warning together with an sti error
WindowFlagRows ==
    {[f \in FlagNames |-> 0],
     [f \in FlagNames |-> IF f = "sma_flag" THEN 2 ELSE 0],
     [f \in FlagNames |-> IF f = "volume_flag" THEN 2 ELSE 0],
     [f \in FlagNames |->
         CASE f = "gun_timing_flag" -> 1 [] f = "sti_flag" -> 2 [] OTHER -> 0]}

\* rows whose shot points ascend by 2 from 1001, any of them replaced by
\* 1001: ascending tables, and tables with duplicated and out-of-order
\* shot points
WindowTables ==
    UNION {{[i \in 1..n |-> [shot_point |-> sp[i], flag |-> fl[i]]] :
               sp \in {q \in [1..n -> {1001} \cup {999 + 2 * i : i \in 1..n}] :
                           \A i \in 1..n : q[i] \in {1001, 999 + 2 * i}},
               fl \in [1..n -> WindowFlagRows]} :
              n \in 0..MaxWinRows}

InitWindows ==
    /\ pc = "check_source_error_windows"
    /\ FunctionAtRest
    /\ \E rows \in WindowTables, th \in WindowConfigs :
           call = [rows |-> rows, th |-> th, results |-> NULL]

CheckSourceErrorWindows ==
    /\ pc = "check_source_error_windows"
    /\ call' = [call EXCEPT !.results =
                   check_source_error_windows(call.rows, call.th)]
    /\ pc' = "windows_returned"
    /\ UNCHANGED callFrame

NextWindows == CheckSourceErrorWindows

SpecWindows == InitWindows /\ [][NextWindows]_vars

NoSharedEnd(violations) ==
    \A i, j \in DOMAIN violations :
        i # j => violations[i][2] # violations[j][2]

\* C18: in the list returned for the 12-in-24 check and in the list returned
\* for the 16-in-40 check no two (start_sp, end_sp) pairs have the same
\* end_sp, whatever the table, duplicated or out-of-order shot points
\* included.
C18_WindowEndsUnique ==
    pc = "windows_returned" =>
        /\ NoSharedEnd(call.results.window_12_of_24)
        /\ NoSharedEnd(call.results.window_16_of_40)

\* row i has one of the five source flags equal to 2
IsSourceError(i) ==
    \E f \in SOURCE_ERROR_FLAGS : call.rows[i].flag[f] = 2

\* rows i .. i + n - 1 exist and are all source errors
ErrorRunAt(i, n) ==
    /\ i + n - 1 <= Len(call.rows)
    /\ \A k \in i..(i + n - 1) : IsSourceError(k)

\* C19: consec_7 is non-empty if and only if the table has, in row order, at
\* least consec_error_window_7 consecutive rows each with one of volume_flag,
\* gun_depth_flag, gun_pressure_flag, gun_timing_flag, sma_flag equal to 2; a
\* flag value of 1 and the other flag columns never count.
C19_ConsecutiveRuns ==
    pc = "windows_returned" =>
        (call.results.consec_7 # <<>>
            <=> \E i \in DOMAIN call.rows :
                    ErrorRunAt(i, call.th.consec_error_window_7))

\* C19 witness: three rows in a row with an sma or a volume error after a row
\* that has only a timing warning and an sti error, window of 3
C19_Witness ==
    /\ pc = "windows_returned"
    /\ call.th.consec_error_window_7 = 3
    /\ Len(call.rows) = 4
    /\ call.rows[1].flag["gun_timing_flag"] = 1
    /\ ErrorRunAt(2, 3)
    /\ Len(call.results.consec_7) = 1
    /\ call.results.consec_7[1][3] = 3

\* the rows at which a maximal run of source errors starts
ErrorRunStarts ==
    {i \in DOMAIN call.rows :
        IsSourceError(i) /\ (i = 1 \/ ~IsSourceError(i - 1))}

\* the last row of the maximal run that starts at row i
ErrorRunEnd(i) ==
    CHOOSE j \in i..Len(call.rows) :
        /\ \A k \in i..j : IsSourceError(k)
        /\ (j = Len(call.rows) \/ ~IsSourceError(j + 1))

\* C24: every maximal run of consecutive source-error rows of length at
\* least consec_error_window_7 gives exactly one entry of consec_7, the
\* tuple (first shot point, last shot point, length of the run), and
\* consec_7 has no other entry: a run longer than the window gives no
\* further entries.
C24_OneEntryPerRun ==
    pc = "windows_returned" =>
        LET long == Ranked({i \in ErrorRunStarts :
                               ErrorRunEnd(i) - i + 1
                                   >= call.th.consec_error_window_7})
        IN  call.results.consec_7 =
                [k \in DOMAIN long |->
                    <<call.rows[long[k]].shot_point,
                      call.rows[ErrorRunEnd(long[k])].shot_point,
                      ErrorRunEnd(long[k]) - long[k] + 1>>]

-----------------------------------------------------------------------------
(* SpecRules: the nine rules of validate_data applied to a table whose     *)
(* flag columns have been initialised, in any order.                       *)
(* call = [initial, todo]: the table before the first rule, the rules      *)
(* still to run.                                                           *)

RuleNames ==
    {"validate_sti", "validate_sub_array_separation",
     "validate_cos_separation", "validate_volume", "validate_gun_depth",
     "validate_gun_pressure", "validate_gun_timing", "validate_radial",
     "validate_sma"}

\* df = self.<rule>(df)
ApplyRule(rule, t, th) ==
    CASE rule = "validate_sti" -> validate_sti(t, th)
      [] rule = "validate_sub_array_separation" ->
            validate_sub_array_separation(t, th)
      [] rule = "validate_cos_separation" -> validate_cos_separation(t, th)
      [] rule = "validate_volume" -> validate_volume(t, th)
      [] rule = "validate_gun_depth" -> validate_gun_depth(t, th)
      [] rule = "validate_gun_pressure" -> validate_gun_pressure(t, th)
      [] rule = "validate_gun_timing" -> validate_gun_timing(t, th)
      [] rule = "validate_radial" -> validate_radial(t, th)
      [] rule = "validate_sma" -> validate_sma(t, th)

\* the flag column a rule writes
RuleFlag(rule) ==
    CASE rule = "validate_sti" -> "sti_flag"
      [] rule = "validate_sub_array_separation" -> "sub_array_sep_flag"
      [] rule = "validate_cos_separation" -> "cos_sep_flag"
      [] rule = "validate_volume" -> "volume_flag"
      [] rule = "validate_gun_depth" -> "gun_depth_flag"
      [] rule = "validate_gun_pressure" -> "gun_pressure_flag"
      [] rule = "validate_gun_timing" -> "gun_timing_flag"
      [] rule = "validate_radial" -> "repeatability_flag"
      [] rule = "validate_sma" -> "sma_flag"

\* tables on which several rules have something to flag
RuleColSets ==
    {{VOLUME, GUN1, DPT1}, {STI_COL, RADIAL, SMA1}, {COS12, COS23, SEP1},
     {GUN1, GUN2, POINT_CODE, PRS1}}

InitRules ==
    /\ pc = "rules"
    /\ thresholds = DefaultThresholds
    /\ \E cs \in RuleColSets, n \in 1..MaxRows :
           \E ph \in PhysRows(cs) :
               df = InitFlags(MkTable(cs, [i \in 1..n |-> 999 + 2 * i],
                                      [i \in 1..n |-> ph]))
    /\ call = [initial |-> df, todo |-> RuleNames]
    /\ timing_todo = <<>>
    /\ log_data = NoLog
    /\ PipelineAtRest

\* every variable but pc, df and call
rulesFrame ==
    <<thresholds, timing_todo, log_data, sps_df, secondaries, merge_todo,
      join_log, markers, missed_sp, percentages, signals, is_cancelled,
      cancel_at, cancel_at_return, cancel_at_check, fn_outcome,
      started_after_cancel, db_written, filter_todo, filtered_data, io>>

\* one of the rules not yet run is run
RunRule ==
    /\ pc = "rules"
    /\ \E rule \in call.todo :
           /\ df' = ApplyRule(rule, df, thresholds)
           /\ call' = [call EXCEPT !.todo = @ \ {rule}]
           /\ pc' = IF call.todo = {rule} THEN "rules_done" ELSE "rules"
    /\ UNCHANGED rulesFrame

NextRules == RunRule

SpecRules == InitRules /\ [][NextRules]_vars

\* the rule run by the step under way
RuleOfStep == CHOOSE rule \in call.todo : call'.todo = call.todo \ {rule}

\* C21: a rule leaves shot_point, every physical column and every other
\* rule's flag column unchanged in every row (validate_gun_depth also writes
\* average_gun_depth) and never lowers a flag; so the table produced once the
\* nine rules have run is the one validate_data produces, in whatever order
\* they ran.
C21_RulesAreIndependent ==
    /\ [](pc = "rules_done" => df = validate_data(call.initial, thresholds))
    /\ [][pc = "rules" =>
            /\ df'.cols = df.cols
            /\ DOMAIN df'.rows = DOMAIN df.rows
            /\ \A i \in DOMAIN df.rows :
                  /\ df'.rows[i].shot_point = df.rows[i].shot_point
                  /\ df'.rows[i].phys = df.rows[i].phys
                  /\ \A f \in FlagNames :
                        /\ f # RuleFlag(RuleOfStep) =>
                              df'.rows[i].flag[f] = df.rows[i].flag[f]
                        /\ df'.rows[i].flag[f] >= df.rows[i].flag[f]
                  /\ RuleOfStep # "validate_gun_depth" =>
                        df'.rows[i].average_gun_depth
                            = df.rows[i].average_gun_depth]_vars

\* C21 witness: the nine rules have run, validate_sma first and validate_sti
\* last is one of the orders, and two different rules have flagged the row
C21_Witness ==
    /\ pc = "rules_done"
    /\ df.rows[1].flag["sti_flag"] = 2
    /\ df.rows[1].flag["repeatability_flag"] = 1
    /\ df.rows[1].flag["sma_flag"] = 2

-----------------------------------------------------------------------------
(* SpecContent: LineLogManager._generate_content; the content is kept as   *)
(* the sequence of its lines (the text between two "\n").                  *)
(* call = [fosp, losp, content]                                            *)

\* the keys of log_data in the model, in insertion order
ContentKeys ==
    <<"log_sma_flag", "log_gun_timing_flag", "log_timing_error",
      "log_repeatability_flag", "log_sub_array_sep_percent_violation",
      "log_consec_7_source_errors">>

\* _get_label_for_key
LabelForKey(key) ==
    CASE key = "log_sma_flag" ->
            <<"S", "P", " ", "w", "i", "t", "h", " ", "S", "M", "A", " ",
              ">", "3">>
      [] key = "log_timing_error" ->
            <<"S", "P", " ", "w", "i", "t", "h", " ", "G", "u", "n", " ",
              "T", "i", "m", "i", "n", "g", " ", ">", "1", ".", "5", "m",
              "s">>
      [] key = "log_repeatability_flag" ->
            <<"S", "P", " ", "w", "i", "t", "h", " ", "R", "a", "d", "i",
              "a", "l", " ", ">", "1", "0", ".", "0", "m">>
      [] key = "log_sub_array_sep_percent_violation" ->
            <<"S", "u", "b", "-", "A", "r", "r", "a", "y", " ", "S", "e",
              "p", "a", "r", "a", "t", "i", "o", "n", " ", "P", "e", "r",
              "c", "e", "n", "t", "a", "g", "e", " ", "V", "i", "o", "l",
              "a", "t", "i", "o", "n">>
      [] key = "log_consec_7_source_errors" ->
            <<"7", "+", " ", "C", "o", "n", "s", "e", "c", "u", "t", "i",
              "v", "e", " ", "S", "P", " ", "w", "i", "t", "h", " ", "S",
              "o", "u", "r", "c", "e", " ", "E", "r", "r", "o", "r", "s">>
      [] OTHER -> <<key>>

\* _filter_log_data_by_range as a whole: the mapping it returns
filter_log_data_by_range(log, fgsp, lgsp) ==
    IF DOMAIN log = {} \/ fgsp = NULL \/ lgsp = NULL THEN log
    ELSE LET out(k) == FilterValue(k, log[k], Min(fgsp, lgsp), Max(fgsp, lgsp))
             kept == {k \in DOMAIN log : ~Falsy(log[k]) /\ ~Falsy(out(k))}
         IN  [k \in kept |-> out(k)]

\* f"{x:.2f}" of 100 - p, p a percentage kept as [num, den]
FormatRemainder(p) ==
    LET hundredths == ((100 * p.den - p.num) * 100) \div p.den
        cents == hundredths % 100
    IN  StrOfInt(hundredths \div 100) \o <<".">>
        \o <<DigitChars[(cents \div 10) + 1], DigitChars[(cents % 10) + 1]>>

\* percentages.get(key, 0)
PercentOrZero(pcts, key) ==
    IF key \in DOMAIN pcts THEN pcts[key] ELSE Pct(0, 1)

\* the three lines every content starts with
ContentHeader(pcts) ==
    <<<<"S", "h", "o", "o", "t", "i", "n", "g", " ", "M", "o", "d", "e",
        ":", " ", "4", "D", " ", "S", "o", "u", "r", "c", "e">>,
      <<"P", "e", "r", "c", "e", "n", "t", "a", "g", "e", " ", "o", "f",
        " ", "s", "h", "o", "t", "p", "o", "i", "n", "t", "s", " ", "w",
        "i", "t", "h", " ", "c", "e", "n", "t", "e", "r", " ", "o", "f",
        " ", "s", "o", "u", "r", "c", "e", " ", "a", "t", " ", "o", "r",
        " ", "w", "i", "t", "h", "i", "n", " ", "1", "0", "m", " ", "r",
        "a", "d", "i", "a", "l", " ", "d", "i", "s", "t", "a", "n", "c",
        "e", " ", "f", "r", "o", "m", " ", "p", "r", "e", "p", "l", "o",
        "t", " ", "=", " ">>
          \o FormatRemainder(PercentOrZero(pcts, "percent_radial")) \o <<"%">>,
      <<"P", "e", "r", "c", "e", "n", "t", "a", "g", "e", " ", "o", "f",
        " ", "s", "h", "o", "t", "p", "o", "i", "n", "t", "s", " ", "w",
        "i", "t", "h", " ", "A", "v", "e", "r", "a", "g", "e", " ", "d",
        "e", "p", "t", "h", " ", "o", "f", " ", "a", "c", "t", "i", "v",
        "e", " ", "s", "o", "u", "r", "c", "e", " ", "a", "r", "r", "a",
        "y", " ", "a", "t", " ", "o", "r", " ", "w", "i", "t", "h", "i",
        "n", " ", "1", "m", " ", "f", "r", "o", "m", " ", "n", "o", "m",
        "i", "n", "a", "l", " ", "7", "m", " ", "d", "e", "p", "t", "h",
        " ", "=", " ">>
          \o FormatRemainder(PercentOrZero(pcts, "percent_gd_errors"))
          \o <<"%">> >>

\* ', '.join(map(str, values))
JoinInts(values) ==
    JoinText([k \in DOMAIN values |-> StrOfInt(values[k])], <<",", " ">>)

\* the line of one key of the filtered log_data
ContentLine(key, value) ==
    LabelForKey(key) \o <<":", " ">>
    \o CASE key = "log_timing_error" ->
              JoinText([k \in DOMAIN value.items |->
                           StrOfInt(value.items[k].sp) \o <<" ", "(">>
                           \o JoinText(value.items[k].guns, <<",">>)
                           \o <<")">>], <<",", " ">>)
         [] key = "log_repeatability_flag" -> detect_range(value.items)
         [] key = "log_sub_array_sep_percent_violation" -> value.text
         [] key = "log_consec_7_source_errors" ->
              JoinText(value.items, <<",", " ">>)
         [] OTHER -> JoinInts(value.items)

RECURSIVE ContentLines(_, _)
\* additional_info of the loop over log_data.items(), from the keys todo on
ContentLines(log, todo) ==
    IF todo = <<>> THEN <<>>
    ELSE LET key == Head(todo)
         IN  (IF key \in DOMAIN log /\ key # "log_gun_timing_flag"
                 /\ ~Falsy(log[key])
              THEN <<ContentLine(key, log[key])>> ELSE <<>>)
             \o ContentLines(log, Tail(todo))

generate_content(pcts, log, missed, fgsp, lgsp, fosp, losp) ==
    LET filtered == IF fgsp # NULL /\ lgsp # NULL
                    THEN filter_log_data_by_range(log, fgsp, lgsp) ELSE log
        additional_info ==
            (IF missed # <<>>
             THEN <<<<"M", "i", "s", "s", "i", "n", "g", " ", "S", "P", ":", " ">> \o JoinInts(missed)>>
             ELSE <<>>)
            \o ContentLines(filtered, ContentKeys)
    IN  ContentHeader(pcts) \o additional_info
        \o (IF fosp # NULL /\ losp # NULL
            THEN <<<<"S", "P", " ">> \o StrOfInt(fosp) \o <<"-">>
                   \o StrOfInt(losp) \o <<" ", "o", "v", "e", "r", "l", "a", "p">>>>
            ELSE <<>>)


GunText == <<"S", "t", "r", "i", "n", "g", " ", "1", " ", "C", "l", "u", "s", "t", "e", "r", " ", "1", " ", "G", "u", "n", " ", "1">>

ContentMarkerChoices ==
    {NoMarkers, [fgsp |-> 1003, lgsp |-> NULL], [fgsp |-> 1003, lgsp |-> 1005],
     [fgsp |-> 1005, lgsp |-> 1003]}

\* log_data as generate_line_log_report builds it for a line of shot points
\* 1001 to 1007, approach and overlap included; missed_sp as check_sp returns
\* it for that line
InitContent ==
    /\ pc = "generate_content"
    /\ markers \in ContentMarkerChoices
    /\ missed_sp \in {<<>>, <<1003>>, <<1001, 1005>>, <<1007>>}
    /\ \/ percentages = <<>>
       \/ percentages = [k \in {"percent_radial", "percent_gd_errors"} |->
                            IF k = "percent_radial" THEN Pct(1, 4)
                            ELSE Pct(0, 4)]
    /\ \E sma \in {<<>>, <<1001, 1003, 1007>>},
          timing \in {<<>>, <<1001, 1005>>},
          radial \in {<<>>, <<1001, 1003, 1005>>},
          text \in {<<>>, MessageText},
          ranges \in {<<>>, <<RangeText(<<"S", "P", " ">>, 1001, 1007, <<" ", "(", "7", " ", "c", "o", "n", "s", "e", "c", "u", "t", "i", "v", "e", ")">>)>>} :
           log_data =
               [k \in Range(ContentKeys) |->
                   CASE k = "log_sma_flag" -> Ints(sma)
                     [] k = "log_gun_timing_flag" -> Ints(<<>>)
                     [] k = "log_timing_error" ->
                            [kind |-> "tuples",
                             items |-> [i \in DOMAIN timing |->
                                           [sp |-> timing[i],
                                            guns |-> <<GunText>>]]]
                     [] k = "log_repeatability_flag" -> Ints(radial)
                     [] k = "log_sub_array_sep_percent_violation" ->
                            [kind |-> "str", text |-> text]
                     [] k = "log_consec_7_source_errors" -> Strs(ranges)]
    /\ \E overlap \in {<<NULL, NULL>>, <<1007, NULL>>, <<1007, 1009>>} :
           call = [fosp |-> overlap[1], losp |-> overlap[2], content |-> <<>>]
    /\ thresholds = DefaultThresholds
    /\ df = NoTable
    /\ timing_todo = <<>>
    /\ sps_df = <<>>
    /\ secondaries = <<>>
    /\ merge_todo = <<>>
    /\ join_log = <<>>
    /\ signals = <<>>
    /\ is_cancelled = FALSE
    /\ cancel_at = "never"
    /\ cancel_at_return = FALSE
    /\ cancel_at_check = FALSE
    /\ fn_outcome = "running"
    /\ started_after_cancel = {}
    /\ db_written = FALSE
    /\ filter_todo = <<>>
    /\ filtered_data = <<>>
    /\ io = [save_ok |-> FALSE]

\* content = self._generate_content(...): log_data is rebound inside the
\* function, the caller's mapping is left as it was
GenerateContent ==
    /\ pc = "generate_content"
    /\ call' = [call EXCEPT !.content =
                   generate_content(percentages, log_data, missed_sp,
                                    markers.fgsp, markers.lgsp,
                                    call.fosp, call.losp)]
    /\ pc' = "content_returned"
    /\ UNCHANGED callFrame

NextContent == GenerateContent

SpecContent == InitContent /\ [][NextContent]_vars

\* the shot points a line shows after its label: the numbers of four digits
\* (every shot point of the model has four digits, no other number has)
ShotPointsShown(line) ==
    LET body == SubSeq(line, FindFirst(line, <<":", " ">>) + 2, Len(line))
        digit(i) == i \in DOMAIN body /\ IsDigit(body[i])
    IN  {DigitsValue(SubSeq(body, i, i + 3)) :
            i \in {j \in DOMAIN body :
                      /\ \A d \in 0..3 : digit(j + d)
                      /\ ~digit(j - 1) /\ ~digit(j + 4)}}

\* the lines of the comment block after the header, the overlap line left out
InfoLines ==
    LET last == IF call.fosp # NULL /\ call.losp # NULL
                THEN Len(call.content) - 1 ELSE Len(call.content)
    IN  {call.content[k] : k \in 4..last}

\* C30: when FGSP and LGSP are both given, every shot point rendered in the
\* comment block, those of the 'Missing SP' line included, lies within
\* [min(FGSP, LGSP), max(FGSP, LGSP)]; only FOSP and LOSP of the overlap line
\* may lie outside.
C30_ContentInProduction ==
    (pc = "content_returned" /\ markers.fgsp # NULL /\ markers.lgsp # NULL) =>
        \A line \in InfoLines : \A sp \in ShotPointsShown(line) :
            InProduction(sp, Min(markers.fgsp, markers.lgsp),
                         Max(markers.fgsp, markers.lgsp))

====
